---------------------------- MODULE Spec2Model ----------------------------
(***************************************************************************)
(* Frame Analyser (Figma plugin): the extraction pass over a frame, the    *)
(* icon classifier, the normalisation of a record, the analysis cache and  *)
(* the summary aggregation, as a state machine driven by UI messages.      *)
(*                                                                         *)
(* Text is modelled as a sequence of one-character strings, so that the    *)
(* regular expressions, key concatenations and comparisons of the code     *)
(* are computed and not assumed.  A JavaScript Map or Set is a record      *)
(* [kind, items] whose items keep insertion order.                         *)
(***************************************************************************)
EXTENDS Integers, Sequences, FiniteSets, TLC

VARIABLES
    selection,          \* figma.currentPage.selection: sequence of node ids
    processedNodes,     \* the module-level Set of processed node ids
    globalAnalysisData, \* the module-level Map frame name -> analysis record
    run,                \* per message handler: where its async function stands
    analysisFrames,     \* the frames on the "Frames Analysed" page
    docData,            \* figma.root plugin data 'analyzedFrames'
    clientData,         \* figma.clientStorage 'analyzedFrames'
    summaryData,        \* the last result of collectSummaryData
    trace,              \* history: one entry per finished or aborted pass
    requests,           \* history: number of requests dispatched so far
    probe,              \* a function of the plugin called on its own: input and result
    fontCache,          \* the module-level Map font key -> the font loaded for it
    availableFonts,     \* the module-level list of fonts, or null
    fontScanPromise,    \* whether the module-level promise of the scan is set
    fontCalls,          \* per caller: where its call of loadFontCached stands
    fontScans           \* history: number of scans getAvailableFonts has run

vars == <<selection, processedNodes, globalAnalysisData, run, analysisFrames,
          docData, clientData, summaryData, trace, requests, probe,
          fontCache, availableFonts, fontScanPromise, fontCalls, fontScans>>

fontVars == <<fontCache, availableFonts, fontScanPromise, fontCalls, fontScans>>

-----------------------------------------------------------------------------
(* Bounds of the model *)

MaxRequests == 3

\* SpecOverlap follows one overlap in a behaviour: a message that arrives
\* while one of the first MaxOverlapAt requests is being handled, and that
\* is the last message of the behaviour
MaxOverlapAt == 1

\* the longest list of nodes findAll returns when analyzeFrame is called on
\* its own
MaxDocLen == 3

\* the longest name lvglNameOf is called with on its own
MaxNameLen == 4

-----------------------------------------------------------------------------
(* A value the code computes once and then reads several times (a const, an
   argument) is named by a bound variable: CHOOSE r \in { F(v) : v \in {e} } : TRUE
   is F(e), and \E v \in {e} : P(v) is P(e). *)

-----------------------------------------------------------------------------
(* Text *)

UpperCase == <<"A","B","C","D","E","F","G","H","I","J","K","L","M",
               "N","O","P","Q","R","S","T","U","V","W","X","Y","Z">>
LowerCase == <<"a","b","c","d","e","f","g","h","i","j","k","l","m",
               "n","o","p","q","r","s","t","u","v","w","x","y","z">>
DigitChars == <<"0","1","2","3","4","5","6","7","8","9">>

Range(s) == { s[i] : i \in DOMAIN s }

\* the position of a character in a table, or 0
PositionIn(table) ==
    [c \in Range(table) |-> CHOOSE i \in DOMAIN table : table[i] = c]

UpperPosition == PositionIn(UpperCase)
LowerPosition == PositionIn(LowerCase)

ToLowerChar(c) == IF c \in DOMAIN UpperPosition THEN LowerCase[UpperPosition[c]] ELSE c

toLowerCase(s) == [i \in DOMAIN s |-> ToLowerChar(s[i])]
toUpperCase(s) ==
    [i \in DOMAIN s |->
        IF s[i] \in DOMAIN LowerPosition THEN UpperCase[LowerPosition[s[i]]] ELSE s[i]]

\* \w of a JavaScript regular expression without the u flag
WordChars == Range(UpperCase) \cup Range(LowerCase) \cup Range(DigitChars) \cup {"_"}

startsWith(s, p) == Len(p) <= Len(s) /\ SubSeq(s, 1, Len(p)) = p

\* s.includes(t), case-insensitive (/t/i.test(s))
ContainsIgnoreCase(s, t) ==
    \E p \in 1..(Len(s) - Len(t) + 1) :
        toLowerCase(SubSeq(s, p, p + Len(t) - 1)) = toLowerCase(t)

\* Number.prototype.toString(10) of a natural number
RECURSIVE NatToString(_)
NatToString(n) ==
    IF n < 10 THEN <<DigitChars[n + 1]>>
    ELSE NatToString(n \div 10) \o <<DigitChars[(n % 10) + 1]>>

\* String.prototype.localeCompare for the characters of the model: compared
\* first without case (punctuation, then digits, then letters), and lower
\* case before upper case when nothing else differs.
CollationPosition ==
    PositionIn(<<" ", "_", "-", ",", ":", "/", "#", "%", "@", "=">> \o DigitChars \o LowerCase)

CollationRank(c) ==
    IF ToLowerChar(c) \in DOMAIN CollationPosition
    THEN CollationPosition[ToLowerChar(c)] ELSE 0

RECURSIVE ComparePrimary(_, _)
ComparePrimary(a, b) ==
    IF a = <<>> /\ b = <<>> THEN 0
    ELSE IF a = <<>> THEN -1
    ELSE IF b = <<>> THEN 1
    ELSE IF CollationRank(Head(a)) < CollationRank(Head(b)) THEN -1
    ELSE IF CollationRank(Head(a)) > CollationRank(Head(b)) THEN 1
    ELSE ComparePrimary(Tail(a), Tail(b))

RECURSIVE CompareCase(_, _)
CompareCase(a, b) ==
    IF a = <<>> \/ b = <<>> THEN 0
    ELSE IF Head(a) = Head(b) THEN CompareCase(Tail(a), Tail(b))
    ELSE IF Head(a) = ToLowerChar(Head(a)) THEN -1 ELSE 1

localeCompare(a, b) ==
    IF ComparePrimary(a, b) # 0 THEN ComparePrimary(a, b) ELSE CompareCase(a, b)


RECURSIVE trim(_)
trim(s) ==
    IF s = <<>> THEN s
    ELSE IF Head(s) = " " THEN trim(Tail(s))
    ELSE IF s[Len(s)] = " " THEN trim(SubSeq(s, 1, Len(s) - 1))
    ELSE s

\* null or undefined where the code expects a string; the host gives every
\* component and style it returns a name of at least one character
Null == <<>>
Truthy(s) == s # <<>>

-----------------------------------------------------------------------------
(* JavaScript Map and Set, with the TypeError of a call the object lacks *)

NewMap == [kind |-> "Map", items |-> <<>>]
NewSet == [kind |-> "Set", items |-> <<>>]
Undefined == [kind |-> "undefined", items |-> <<>>]

Entry(k, v) == [key |-> k, value |-> v]

\* c.has(k) throws only when c is undefined
HasThrows(c) == c.kind = "undefined"
Has(c, k) ==
    IF c.kind = "Map" THEN \E i \in DOMAIN c.items : c.items[i].key = k
    ELSE \E i \in DOMAIN c.items : c.items[i] = k

\* c.set(k, v) and c.get(k) exist on a Map only, c.add(x) on a Set only
MapCallThrows(c) == c.kind # "Map"
SetCallThrows(c) == c.kind # "Set"

IndexOf(c, k) == CHOOSE i \in DOMAIN c.items : c.items[i].key = k
MapGet(c, k) == c.items[IndexOf(c, k)].value
MapSet(c, k, v) ==
    IF Has(c, k)
    THEN [c EXCEPT !.items[IndexOf(c, k)] = Entry(k, v)]
    ELSE [c EXCEPT !.items = Append(@, Entry(k, v))]
SetAdd(c, x) == IF Has(c, x) THEN c ELSE [c EXCEPT !.items = Append(@, x)]

MapValues(c) == [i \in DOMAIN c.items |-> c.items[i].value]

-----------------------------------------------------------------------------
(* The icon classifier *)

\* /(^|\b|[_\-\s])(ic|icon)([_\-\s]|\b|$)/i.test(s)
iconNameRegex(s) ==
    \E name \in {s} :
    \E p \in 1..Len(name), t \in { <<"i","c">>, <<"i","c","o","n">> } :
        LET e == p + Len(t)
            separators == {"_", "-", " "}
        IN
        /\ e - 1 <= Len(name)
        /\ toLowerCase(SubSeq(name, p, e - 1)) = t
        /\ \/ p = 1
           \/ name[p - 1] \notin WordChars
           \/ name[p - 1] \in separators
        /\ \/ e > Len(name)
           \/ name[e] \in separators
           \/ name[e] \notin WordChars

IsSet(parent) == parent.type = "COMPONENT_SET"

looksLikeIconByVariant(mainComponent) ==
    /\ ~mainComponent.variantPropertiesThrow
    /\ \E i \in DOMAIN mainComponent.variantProperties :
          \/ ContainsIgnoreCase(mainComponent.variantProperties[i][1], <<"i","c","o","n">>)
          \/ ContainsIgnoreCase(mainComponent.variantProperties[i][2], <<"i","c","o","n">>)

\* the size hint deciding as well
isComponentAnIcon_SizeDecides(mainComponent) ==
    LET compName == trim(mainComponent.name)
        setName == IF IsSet(mainComponent.parent) THEN mainComponent.parent.name ELSE <<>>
        looksLikeIconByName == iconNameRegex(compName) \/ iconNameRegex(setName)
        w == mainComponent.width
        h == mainComponent.height
        looksIconBySize == w > 0 /\ h > 0 /\ (IF w > h THEN w ELSE h) <= 128
    IN  IF mainComponent.readThrows THEN FALSE
        ELSE looksLikeIconByName \/ looksLikeIconByVariant(mainComponent) \/ looksIconBySize

\* a property of the component that throws when read ends in the outer
\* catch; looksIconBySize is computed and not used
isComponentAnIcon(mainComponent) ==
    LET compName == trim(mainComponent.name)
        setName == IF IsSet(mainComponent.parent) THEN mainComponent.parent.name ELSE <<>>
        looksLikeIconByName == iconNameRegex(compName) \/ iconNameRegex(setName)
        w == mainComponent.width
        h == mainComponent.height
        looksIconBySize == w > 0 /\ h > 0 /\ (IF w > h THEN w ELSE h) <= 128
    IN  IF mainComponent.readThrows THEN FALSE
        ELSE looksLikeIconByName \/ looksLikeIconByVariant(mainComponent)

-----------------------------------------------------------------------------
(* Colours.  A channel or an opacity in [0,1] is held in thousandths. *)

HexDigits == <<"0","1","2","3","4","5","6","7","8","9","a","b","c","d","e","f">>

\* Math.round(x * k) for x = milli / 1000
RoundScaled(milli, k) == (milli * k * 2 + 1000) \div 2000

\* Number.prototype.toString(16)
RECURSIVE NatToHexString(_)
NatToHexString(n) ==
    IF n < 16 THEN <<HexDigits[n + 1]>>
    ELSE NatToHexString(n \div 16) \o <<HexDigits[(n % 16) + 1]>>

toHex(c) ==
    LET hex == NatToHexString(RoundScaled(c, 255))
    IN  IF Len(hex) = 1 THEN <<"0">> \o hex ELSE hex

rgbToHex(r, g, b) == toUpperCase(<<"#">> \o toHex(r) \o toHex(g) \o toHex(b))

-----------------------------------------------------------------------------
(* analyzeNode: one node against the collections it is handed *)

Ctx(components, icons, fonts, colors, colorStyles, textStyles, effectStyles) ==
    [components |-> components, icons |-> icons, fonts |-> fonts, colors |-> colors,
     colorStyles |-> colorStyles, textStyles |-> textStyles, effectStyles |-> effectStyles]

\* how a block of analyzeNode ends: it falls through, it returns from
\* analyzeNode, or it throws to the catch around the whole body
Ok(ctx) == [ctx |-> ctx, status |-> "ok"]
Return(ctx) == [ctx |-> ctx, status |-> "return"]
Throw(ctx) == [ctx |-> ctx, status |-> "throw"]

ComponentReference(mainComponent, isIcon) ==
    LET isVariant == IsSet(mainComponent.parent)
        masterComponent == IF isVariant THEN mainComponent.parent ELSE mainComponent
    IN  [masterName |-> IF isVariant THEN masterComponent.name ELSE mainComponent.name,
         variantName |-> IF isVariant THEN mainComponent.name ELSE Null,
         fullName |-> mainComponent.name,
         key |-> mainComponent.key,
         id |-> mainComponent.id,
         isVariant |-> isVariant,
         instanceCount |-> 1,
         isIcon |-> isIcon]

VariantKeyOf(mainComponent) ==
    IF Truthy(mainComponent.key) THEN mainComponent.key ELSE mainComponent.id

\* the component block keyed by the master's name instead of variantKey
UpsertComponent_ByMasterName(targetMap, mainComponent, isIcon) ==
    LET masterName == ComponentReference(mainComponent, isIcon).masterName IN
    IF HasThrows(targetMap) \/ MapCallThrows(targetMap) THEN targetMap
    ELSE IF ~Has(targetMap, masterName)
         THEN MapSet(targetMap, masterName, ComponentReference(mainComponent, isIcon))
         ELSE MapSet(targetMap, masterName,
                     [MapGet(targetMap, masterName) EXCEPT !.instanceCount = @ + 1])

\* targetMap.has / set / get of the component block; a TypeError is caught
\* by the block's own catch
UpsertComponent(targetMap, mainComponent, isIcon) ==
    LET variantKey == VariantKeyOf(mainComponent) IN
    IF HasThrows(targetMap) \/ MapCallThrows(targetMap) THEN targetMap
    ELSE IF ~Has(targetMap, variantKey)
         THEN MapSet(targetMap, variantKey, ComponentReference(mainComponent, isIcon))
         ELSE MapSet(targetMap, variantKey,
                     [MapGet(targetMap, variantKey) EXCEPT !.instanceCount = @ + 1])

ExtractComponent(node, resolve, ctx) ==
    IF node.type # "INSTANCE" THEN Ok(ctx)
    ELSE IF node.mainComponent = "null" THEN Return(ctx)
    ELSE IF node.getMainComponentAsync \in {"throws", "null"} THEN Ok(ctx)
    ELSE IF resolve[node.getMainComponentAsync].readThrows THEN Ok(ctx)
    ELSE
        LET mainComponent == resolve[node.getMainComponentAsync]
            masterComponent == IF IsSet(mainComponent.parent)
                               THEN mainComponent.parent ELSE mainComponent
            isIcon == isComponentAnIcon(mainComponent)
        IN  IF ~(Truthy(mainComponent.name)
                 /\ (Truthy(mainComponent.key) \/ Truthy(mainComponent.id)))
            THEN Ok(ctx)
            ELSE IF ~Truthy(masterComponent.name) THEN Return(ctx)
            ELSE IF isIcon
                 THEN Ok([ctx EXCEPT !.icons = UpsertComponent(@, mainComponent, TRUE)])
                 ELSE Ok([ctx EXCEPT !.components = UpsertComponent(@, mainComponent, FALSE)])

\* a font size as the extractor stores it: a number, 'Unknown' or 'Mixed'
NumberSize(n) == [kind |-> "number", n |-> n]

\* `${fontSize}`
SizeText(fontSize) ==
    IF fontSize.kind = "number" THEN NatToString(fontSize.n)
    ELSE IF fontSize.kind = "Mixed" THEN <<"M","i","x","e","d">>
    ELSE <<"U","n","k","n","o","w","n">>

ResolveFontSize(node, styles) ==
    IF node.fontSize.kind = "number" /\ node.fontSize.n # 0 THEN NumberSize(node.fontSize.n)
    ELSE IF node.fontSize.kind = "mixed" THEN [kind |-> "Mixed", n |-> 0]
    ELSE IF Truthy(node.textStyleId)
              /\ styles[node.textStyleId].outcome = "style"
              /\ styles[node.textStyleId].fontSize.kind = "number"
              /\ styles[node.textStyleId].fontSize.n # 0
         THEN styles[node.textStyleId].fontSize
    ELSE [kind |-> "Unknown", n |-> 0]

FontKeyOf(fontName, fontSize) ==
    fontName.family \o <<" ","-"," ">> \o fontName.style \o <<" ","-"," ">>
        \o SizeText(fontSize) \o <<"p","x">>

\* a style name met later put in the place of the one the entry has
ExtractFont_LastStyleWins(node, styles, ctx) ==
    IF ~node.hasFontName THEN Ok(ctx)
    ELSE
        LET fontSize == ResolveFontSize(node, styles)
            fontKey == FontKeyOf(node.fontName, fontSize)
            found == Truthy(node.textStyleId) /\ styles[node.textStyleId].outcome = "style"
            styleName == IF found THEN styles[node.textStyleId].name ELSE Null
            info == [fontFamily |-> node.fontName.family, fontStyle |-> node.fontName.style,
                     fontSize |-> fontSize]
            \* textStyles.set inside its own try: a TypeError leaves styleName set
            ctx1 == IF found /\ ~MapCallThrows(ctx.textStyles)
                    THEN [ctx EXCEPT !.textStyles = MapSet(@, styleName, info)]
                    ELSE ctx
            fonts == ctx1.fonts
        IN  IF HasThrows(fonts) THEN Ok(ctx1)
            ELSE IF ~Has(fonts, fontKey)
                 THEN IF MapCallThrows(fonts) THEN Ok(ctx1)
                      ELSE Ok([ctx1 EXCEPT !.fonts = MapSet(@, fontKey,
                                 [fontFamily |-> node.fontName.family,
                                  fontStyle |-> node.fontName.style,
                                  fontSize |-> fontSize,
                                  styleName |-> styleName])])
            ELSE IF Truthy(styleName) /\ ~MapCallThrows(fonts)
                 THEN Ok([ctx1 EXCEPT !.fonts = MapSet(@, fontKey,
                            [MapGet(fonts, fontKey) EXCEPT !.styleName = styleName])])
            ELSE Ok(ctx1)

ExtractFont(node, styles, ctx) ==
    IF ~node.hasFontName THEN Ok(ctx)
    ELSE
        LET fontSize == ResolveFontSize(node, styles)
            fontKey == FontKeyOf(node.fontName, fontSize)
            found == Truthy(node.textStyleId) /\ styles[node.textStyleId].outcome = "style"
            styleName == IF found THEN styles[node.textStyleId].name ELSE Null
            info == [fontFamily |-> node.fontName.family, fontStyle |-> node.fontName.style,
                     fontSize |-> fontSize]
            \* textStyles.set inside its own try: a TypeError leaves styleName set
            ctx1 == IF found /\ ~MapCallThrows(ctx.textStyles)
                    THEN [ctx EXCEPT !.textStyles = MapSet(@, styleName, info)]
                    ELSE ctx
            fonts == ctx1.fonts
        IN  IF HasThrows(fonts) THEN Ok(ctx1)
            ELSE IF ~Has(fonts, fontKey)
                 THEN IF MapCallThrows(fonts) THEN Ok(ctx1)
                      ELSE Ok([ctx1 EXCEPT !.fonts = MapSet(@, fontKey,
                                 [fontFamily |-> node.fontName.family,
                                  fontStyle |-> node.fontName.style,
                                  fontSize |-> fontSize,
                                  styleName |-> styleName])])
            ELSE IF Truthy(styleName) /\ ~MapCallThrows(fonts)
                      /\ ~Truthy(MapGet(fonts, fontKey).styleName)
                 THEN Ok([ctx1 EXCEPT !.fonts = MapSet(@, fontKey,
                            [MapGet(fonts, fontKey) EXCEPT !.styleName = styleName])])
            ELSE Ok(ctx1)

\* the key without the opacity
ColorKeyOf_HexOnly(hex, opacity) == hex

ColorKeyOf(hex, opacity) ==
    IF opacity < 1000
    THEN hex \o <<"@">> \o NatToString(RoundScaled(opacity, 100)) \o <<"%">>
    ELSE hex

\* the loop over the paints without the test fill.opacity !== 0
RECURSIVE ExtractPaints_TransparentKept(_, _, _, _, _, _)
ExtractPaints_TransparentKept(paints, i, styleId, type, styles, ctx) ==
    IF i > Len(paints) THEN Ok(ctx)
    ELSE
        LET paint == paints[i] IN
        IF ~(paint.type = "SOLID" /\ paint.hasColor /\ paint.visible)
        THEN ExtractPaints_TransparentKept(paints, i + 1, styleId, type, styles, ctx)
        ELSE
            LET hex == rgbToHex(paint.color[1], paint.color[2], paint.color[3])
                opacity == IF paint.hasOpacity THEN paint.opacity ELSE 1000
                found == Truthy(styleId) /\ styles[styleId].outcome = "style"
                styleName == IF found THEN styles[styleId].name ELSE Null
                \* colorStyles.add inside its own try
                ctx1 == IF found /\ ~SetCallThrows(ctx.colorStyles)
                        THEN [ctx EXCEPT !.colorStyles = SetAdd(@, styleName)]
                        ELSE ctx
                colors == ctx1.colors
                colorKey == ColorKeyOf(hex, opacity)
            IN  IF HasThrows(colors) THEN Throw(ctx1)
                ELSE IF ~Has(colors, colorKey)
                     THEN IF MapCallThrows(colors) THEN Throw(ctx1)
                          ELSE ExtractPaints_TransparentKept(paints, i + 1, styleId, type, styles,
                                 [ctx1 EXCEPT !.colors = MapSet(@, colorKey,
                                    [hex |-> hex, opacity |-> opacity,
                                     styleName |-> styleName, type |-> type])])
                ELSE IF ~Truthy(styleName)
                     THEN ExtractPaints_TransparentKept(paints, i + 1, styleId, type, styles, ctx1)
                ELSE IF MapCallThrows(colors) THEN Throw(ctx1)
                ELSE IF ~Truthy(MapGet(colors, colorKey).styleName)
                     THEN ExtractPaints_TransparentKept(paints, i + 1, styleId, type, styles,
                            [ctx1 EXCEPT !.colors = MapSet(@, colorKey,
                               [MapGet(colors, colorKey) EXCEPT !.styleName = styleName])])
                ELSE ExtractPaints_TransparentKept(paints, i + 1, styleId, type, styles, ctx1)

\* the body of the loop over node.fills (type 'fill') or node.strokes
\* (type 'stroke') for the paint at index i, then the rest of the loop
RECURSIVE ExtractPaints(_, _, _, _, _, _)
ExtractPaints(paints, i, styleId, type, styles, ctx) ==
    IF i > Len(paints) THEN Ok(ctx)
    ELSE
        LET paint == paints[i] IN
        IF ~(paint.type = "SOLID" /\ paint.hasColor /\ paint.visible
             /\ ~(paint.hasOpacity /\ paint.opacity = 0))
        THEN ExtractPaints(paints, i + 1, styleId, type, styles, ctx)
        ELSE
            LET hex == rgbToHex(paint.color[1], paint.color[2], paint.color[3])
                opacity == IF paint.hasOpacity THEN paint.opacity ELSE 1000
                found == Truthy(styleId) /\ styles[styleId].outcome = "style"
                styleName == IF found THEN styles[styleId].name ELSE Null
                \* colorStyles.add inside its own try
                ctx1 == IF found /\ ~SetCallThrows(ctx.colorStyles)
                        THEN [ctx EXCEPT !.colorStyles = SetAdd(@, styleName)]
                        ELSE ctx
                colors == ctx1.colors
                colorKey == ColorKeyOf(hex, opacity)
            IN  IF HasThrows(colors) THEN Throw(ctx1)
                ELSE IF ~Has(colors, colorKey)
                     THEN IF MapCallThrows(colors) THEN Throw(ctx1)
                          ELSE ExtractPaints(paints, i + 1, styleId, type, styles,
                                 [ctx1 EXCEPT !.colors = MapSet(@, colorKey,
                                    [hex |-> hex, opacity |-> opacity,
                                     styleName |-> styleName, type |-> type])])
                ELSE IF ~Truthy(styleName)
                     THEN ExtractPaints(paints, i + 1, styleId, type, styles, ctx1)
                ELSE IF MapCallThrows(colors) THEN Throw(ctx1)
                ELSE IF ~Truthy(MapGet(colors, colorKey).styleName)
                     THEN ExtractPaints(paints, i + 1, styleId, type, styles,
                            [ctx1 EXCEPT !.colors = MapSet(@, colorKey,
                               [MapGet(colors, colorKey) EXCEPT !.styleName = styleName])])
                ELSE ExtractPaints(paints, i + 1, styleId, type, styles, ctx1)

ExtractEffectStyle(node, styles, ctx) ==
    IF Truthy(node.effectStyleId)
       /\ styles[node.effectStyleId].outcome = "style"
       /\ ~SetCallThrows(ctx.effectStyles)
    THEN Ok([ctx EXCEPT !.effectStyles = SetAdd(@, styles[node.effectStyleId].name)])
    ELSE Ok(ctx)

\* the body of analyzeNode after the visibility gate
ExtractFacets(node, resolve, styles, ctx) ==
    LET \* each block runs on the collections the blocks before it left,
        \* unless one of them returned or threw
        font(before) ==
            CHOOSE after \in
                { IF prev.status = "ok" THEN ExtractFont(node, styles, prev.ctx) ELSE prev :
                    prev \in {before} } : TRUE
        fills(before) ==
            CHOOSE after \in
                { IF prev.status = "ok" /\ node.hasFills
                  THEN ExtractPaints(node.fills, 1, node.fillStyleId, "fill", styles, prev.ctx)
                  ELSE prev :
                    prev \in {before} } : TRUE
        strokes(before) ==
            CHOOSE after \in
                { IF prev.status = "ok" /\ node.hasStrokes
                  THEN ExtractPaints(node.strokes, 1, node.strokeStyleId, "stroke", styles,
                                     prev.ctx)
                  ELSE prev :
                    prev \in {before} } : TRUE
        effect(before) ==
            CHOOSE after \in
                { IF prev.status = "ok" THEN ExtractEffectStyle(node, styles, prev.ctx)
                  ELSE prev :
                    prev \in {before} } : TRUE
    IN  effect(strokes(fills(font(ExtractComponent(node, resolve, ctx))))).ctx

\* analyzeNode(node, ...): the new collections and the new processedNodes
analyzeNode(node, resolve, styles, processed, ctx) ==
    IF node.removed \/ node.type = "" THEN [ctx |-> ctx, processed |-> processed]
    ELSE IF node.id \in processed THEN [ctx |-> ctx, processed |-> processed]
    ELSE IF ~node.visible \/ (node.width < 1 /\ node.height < 1)
         THEN [ctx |-> ctx, processed |-> processed \cup {node.id}]
    ELSE [ctx |-> ExtractFacets(node, resolve, styles, ctx),
          processed |-> processed \cup {node.id}]

-----------------------------------------------------------------------------
(* hexToRgb565 *)

HexPosition == PositionIn(HexDigits)

IsHexDigit(c) == ToLowerChar(c) \in DOMAIN HexPosition
HexDigitValue(c) == HexPosition[ToLowerChar(c)] - 1

\* /^#?([a-f\d]{2})([a-f\d]{2})([a-f\d]{2})$/i: the six digits, or <<>>
HexPattern(hex) ==
    LET digits == IF hex # <<>> /\ Head(hex) = "#" THEN Tail(hex) ELSE hex
    IN  IF Len(digits) = 6 /\ \A i \in 1..6 : IsHexDigit(digits[i]) THEN digits ELSE <<>>

\* parseInt(pair, 16)
ParseHexPair(d, i) == HexDigitValue(d[i]) * 16 + HexDigitValue(d[i + 1])

\* Math.floor in the place of Math.round
RoundChannel_Truncates(v, k) == (v * k) \div 255

\* Math.round(v * k / 255)
RoundChannel(v, k) == (v * k * 2 + 255) \div 510

\* String.prototype.padStart(4, '0')
\* the digits of toString(16) as they are
padStart4_NoPadding(s) == s

RECURSIVE padStart4(_)
padStart4(s) == IF Len(s) >= 4 THEN s ELSE padStart4(<<"0">> \o s)

hexToRgb565(hex) ==
    CHOOSE converted \in
        { IF result = <<>> THEN <<"0","x","0","0","0","0">>
          ELSE
              LET r5 == RoundChannel(ParseHexPair(result, 1), 31)
                  g6 == RoundChannel(ParseHexPair(result, 3), 63)
                  b5 == RoundChannel(ParseHexPair(result, 5), 31)
              IN  CHOOSE text \in
                      { <<"0","x">> \o padStart4(toUpperCase(NatToHexString(rgb565))) :
                          rgb565 \in { r5 * 2048 + g6 * 32 + b5 } } : TRUE :
            result \in { HexPattern(hex) } } : TRUE

-----------------------------------------------------------------------------
(* Array.prototype.sort: stable, by a comparator *)

\* x, the next element of the array, moves towards the front past the
\* elements the comparator puts it before and stops at the first one it is
\* not put before (less[k] tells whether the comparator puts x before
\* sorted[k]). With a consistent comparator this is the one order a stable
\* sort gives; with one that is not consistent the order is left to the
\* engine, and this is the order of an insertion sort of a short array
InsertBy(sorted, x, less) ==
    LET stops == { k \in DOMAIN sorted : ~less[k] }
        at == IF stops = {} THEN 0 ELSE CHOOSE k \in stops : \A m \in stops : m <= k
    IN  SubSeq(sorted, 1, at) \o <<x>> \o SubSeq(sorted, at + 1, Len(sorted))

RECURSIVE SortColors(_)
SortColors(s) ==
    CHOOSE result \in
        { IF list = <<>> THEN <<>>
          ELSE CHOOSE inserted \in
                  { InsertBy(sorted, list[Len(list)],
                             [k \in DOMAIN sorted |-> localeCompare(list[Len(list)].hex, sorted[k].hex) < 0]) :
                       sorted \in { SortColors(SubSeq(list, 1, Len(list) - 1)) } } : TRUE :
            list \in {s} } : TRUE

\* parseFloat(a.fontSize) - parseFloat(b.fontSize) < 0; NaN compares as equal
FontLess(a, b) ==
    LET familyCompare == localeCompare(a.fontFamily, b.fontFamily)
        styleCompare == localeCompare(a.fontStyle, b.fontStyle)
    IN  IF familyCompare # 0 THEN familyCompare < 0
        ELSE IF styleCompare # 0 THEN styleCompare < 0
        ELSE /\ a.fontSize.kind = "number"
             /\ b.fontSize.kind = "number"
             /\ a.fontSize.n < b.fontSize.n

RECURSIVE SortFonts(_)
SortFonts(s) ==
    CHOOSE result \in
        { IF list = <<>> THEN <<>>
          ELSE CHOOSE inserted \in
                  { InsertBy(sorted, list[Len(list)],
                             [k \in DOMAIN sorted |-> FontLess(list[Len(list)], sorted[k])]) :
                       sorted \in { SortFonts(SubSeq(list, 1, Len(list) - 1)) } } : TRUE :
            list \in {s} } : TRUE

RECURSIVE SortTextStyles(_)
SortTextStyles(s) ==
    CHOOSE result \in
        { IF list = <<>> THEN <<>>
          ELSE CHOOSE inserted \in
                  { InsertBy(sorted, list[Len(list)],
                             [k \in DOMAIN sorted |-> localeCompare(list[Len(list)].styleName, sorted[k].styleName) < 0]) :
                       sorted \in { SortTextStyles(SubSeq(list, 1, Len(list) - 1)) } } : TRUE :
            list \in {s} } : TRUE

\* the default comparator of sort(): by UTF-16 code unit
CodeUnitPosition ==
    PositionIn(<<" ", "#", "%", ",", "-", "/">> \o DigitChars \o <<":", "=", "@">>
                   \o UpperCase \o <<"_">> \o LowerCase)

CodeUnit(c) == IF c \in DOMAIN CodeUnitPosition THEN CodeUnitPosition[c] ELSE 0

RECURSIVE CodeUnitLess(_, _)
CodeUnitLess(a, b) ==
    IF b = <<>> THEN FALSE
    ELSE IF a = <<>> THEN TRUE
    ELSE IF CodeUnit(Head(a)) # CodeUnit(Head(b)) THEN CodeUnit(Head(a)) < CodeUnit(Head(b))
    ELSE CodeUnitLess(Tail(a), Tail(b))

RECURSIVE SortStrings(_)
SortStrings(s) ==
    CHOOSE result \in
        { IF list = <<>> THEN <<>>
          ELSE CHOOSE inserted \in
                  { InsertBy(sorted, list[Len(list)],
                             [k \in DOMAIN sorted |-> CodeUnitLess(list[Len(list)], sorted[k])]) :
                       sorted \in { SortStrings(SubSeq(list, 1, Len(list) - 1)) } } : TRUE :
            list \in {s} } : TRUE

-----------------------------------------------------------------------------
(* analyzeFrame: the record built from the collections after the walk *)

ColorEntry(info) ==
    [hex |-> info.hex,
     rgb565 |-> hexToRgb565(info.hex),
     opacity |-> info.opacity,
     displayHex |-> IF info.opacity < 1000
                    THEN info.hex \o <<" ","(">> \o NatToString(RoundScaled(info.opacity, 100))
                             \o <<"%",")">>
                    ELSE info.hex,
     styleName |-> info.styleName,
     type |-> info.type]

FontEntry(fontKey, info) ==
    [fontKey |-> fontKey,
     fontFamily |-> info.fontFamily,
     fontStyle |-> info.fontStyle,
     fontSize |-> info.fontSize,
     styleName |-> info.styleName,
     displayString |-> info.fontFamily \o <<" ">> \o info.fontStyle \o <<" ">>
                          \o SizeText(info.fontSize) \o <<"p","x">>,
     hasStyle |-> Truthy(info.styleName)]

TextStyleEntry(styleName, fontInfo) ==
    [styleName |-> styleName,
     fontFamily |-> fontInfo.fontFamily,
     fontStyle |-> fontInfo.fontStyle,
     fontSize |-> fontInfo.fontSize]

AnalysisRecord(frame, elementCount, ctx) ==
    [components |-> MapValues(ctx.components),
     icons |-> MapValues(ctx.icons),
     fonts |-> SortFonts([i \in DOMAIN ctx.fonts.items |->
                  FontEntry(ctx.fonts.items[i].key, ctx.fonts.items[i].value)]),
     colors |-> SortColors([i \in DOMAIN ctx.colors.items |->
                  ColorEntry(ctx.colors.items[i].value)]),
     colorStyles |-> SortStrings(ctx.colorStyles.items),
     textStyles |-> SortTextStyles([i \in DOMAIN ctx.textStyles.items |->
                  TextStyleEntry(ctx.textStyles.items[i].key, ctx.textStyles.items[i].value)]),
     effectStyles |-> SortStrings(ctx.effectStyles.items),
     frameInfo |-> [name |-> frame.name, width |-> frame.node.width,
                    height |-> frame.node.height, elementCount |-> elementCount]]

-----------------------------------------------------------------------------
(* normalizeComponentIconClassification *)

\* the name the reconciliation rule reads, lower-cased
ReclassName(c) == toLowerCase(IF Truthy(c.masterName) THEN c.masterName ELSE c.fullName)

\* the rule without the isIcon flag: the name alone decides
looksIcon_ByNameOnly(c) == iconNameRegex(ReclassName(c))

\* a ComponentReference has no setName: /icon/i.test('') is false
looksIcon(c) == iconNameRegex(ReclassName(c)) \/ c.isIcon

pushComp(c) == [c EXCEPT !.isIcon = FALSE]
pushIcon(c) == [c EXCEPT !.isIcon = TRUE]

RECURSIVE Reclassified(_, _)
Reclassified(list, wantIcon) ==
    IF list = <<>> THEN <<>>
    ELSE CHOOSE result \in
            { IF looksIcon(c) = wantIcon
              THEN <<IF wantIcon THEN pushIcon(c) ELSE pushComp(c)>>
                       \o Reclassified(Tail(list), wantIcon)
              ELSE Reclassified(Tail(list), wantIcon) :
                c \in { Head(list) } } : TRUE

\* the second loop reading analysisData.components once more
normalizeComponentIconClassification_SameListTwice(analysisData) ==
    [analysisData EXCEPT
        !.components = Reclassified(analysisData.components, FALSE)
                          \o Reclassified(analysisData.components, FALSE),
        !.icons = Reclassified(analysisData.components, TRUE)
                          \o Reclassified(analysisData.components, TRUE)]

normalizeComponentIconClassification(analysisData) ==
    CHOOSE result \in
        { [data EXCEPT
              !.components = Reclassified(data.components, FALSE)
                                \o Reclassified(data.icons, FALSE),
              !.icons = Reclassified(data.components, TRUE)
                                \o Reclassified(data.icons, TRUE)] :
            data \in { analysisData } } : TRUE

-----------------------------------------------------------------------------
(* The cache and collectSummaryData *)

\* the name deleted before it is set: a name the cache has moves to the end
storeAnalysisData_DeleteThenSet(cache, frameName, analysisData) ==
    [cache EXCEPT !.items = Append(SelectSeq(@, LAMBDA e : e.key # frameName),
                                   Entry(frameName, analysisData))]

\* globalAnalysisData.set(frameName, analysisData)
storeAnalysisData(cache, frameName, analysisData) == MapSet(cache, frameName, analysisData)

\* the loop left (break) at the first key the map already has
RECURSIVE AddAllFirst_StopAtDuplicate(_, _)
AddAllFirst_StopAtDuplicate(map, entries) ==
    IF entries = <<>> THEN map
    ELSE IF Has(map, Head(entries).key) THEN map
    ELSE AddAllFirst_StopAtDuplicate(MapSet(map, Head(entries).key, Head(entries).value),
                                     Tail(entries))

\* m.set(key, value) unless m.has(key), for each entry in turn
RECURSIVE AddAllFirst(_, _)
AddAllFirst(map, entries) ==
    IF entries = <<>> THEN map
    ELSE CHOOSE result \in
            { AddAllFirst(next, rest) :
                next \in { IF Has(map, Head(entries).key) THEN map
                           ELSE MapSet(map, Head(entries).key, Head(entries).value) },
                rest \in { Tail(entries) } } : TRUE

ComponentDedupKey(comp) ==
    IF comp.isVariant THEN comp.masterName \o <<":">> \o comp.variantName
    ELSE comp.masterName

FontDedupKey(f) == f.displayString

\* colours told apart by hex and opacity
ColorDedupKey_WithOpacity(c) == c.displayHex

ColorDedupKey(c) == c.hex

\* the instanceCount of a later entry added to the entry kept for its key
RECURSIVE AggregateComponents_Summed(_, _)
AggregateComponents_Summed(map, list) ==
    IF list = <<>> THEN map
    ELSE LET comp == Head(list)
             key == ComponentDedupKey(comp)
         IN  AggregateComponents_Summed(
                 IF Has(map, key)
                 THEN MapSet(map, key, [MapGet(map, key) EXCEPT
                                           !.instanceCount = @ + comp.instanceCount])
                 ELSE MapSet(map, key, comp),
                 Tail(list))

AggregateComponents(map, list) ==
    CHOOSE result \in
        { AddAllFirst(map, entries) :
            entries \in { [i \in DOMAIN list |-> Entry(ComponentDedupKey(list[i]), list[i])] } } : TRUE

AggregateFonts(map, list) ==
    CHOOSE result \in
        { AddAllFirst(map, entries) :
            entries \in { [i \in DOMAIN list |-> Entry(FontDedupKey(list[i]), list[i])] } } : TRUE

AggregateColors(map, list) ==
    CHOOSE result \in
        { AddAllFirst(map, entries) :
            entries \in { [i \in DOMAIN list |-> Entry(ColorDedupKey(list[i]), list[i])] } } : TRUE

\* the loop over globalAnalysisData.entries()
RECURSIVE Aggregate(_, _)
Aggregate(acc, entries) ==
    IF entries = <<>> THEN acc
    ELSE
        LET analysisData == Head(entries).value
            normalized == normalizeComponentIconClassification(
                              [components |-> analysisData.components,
                               icons |-> analysisData.icons])
        IN  CHOOSE result \in
                { Aggregate(next, Tail(entries)) :
                    next \in { [components |-> AggregateComponents(acc.components, normalized.components),
                                icons |-> AggregateComponents(acc.icons, normalized.icons),
                                fonts |-> AggregateFonts(acc.fonts, analysisData.fonts),
                                colors |-> AggregateColors(acc.colors, analysisData.colors)] } } : TRUE

collectSummaryData(cache, frameCount) ==
    CHOOSE summary \in
        { [frameCount |-> frameCount,
           totalComponents |-> Len(agg.components.items),
           totalIcons |-> Len(agg.icons.items),
           totalFonts |-> Len(agg.fonts.items),
           totalColors |-> Len(agg.colors.items),
           components |-> MapValues(agg.components),
           icons |-> MapValues(agg.icons),
           fonts |-> MapValues(agg.fonts),
           colors |-> MapValues(agg.colors)] :
            agg \in { Aggregate([components |-> NewMap, icons |-> NewMap,
                                 fonts |-> NewMap, colors |-> NewMap], cache.items) } } : TRUE

-----------------------------------------------------------------------------
(* generateLVGLJson *)

\* an underscore for each space and hyphen: /[\s-]/g in the place of /[\s-]+/g
lvglNameOf_UnderscorePerSeparator(styleKey) ==
    LET kept == SelectSeq(styleKey, LAMBDA c : c \in WordChars \cup {" ", "-"})
    IN  toLowerCase([i \in DOMAIN kept |-> IF kept[i] \in {" ", "-"} THEN "_" ELSE kept[i]])

\* .replace(/[^a-zA-Z0-9_\s-]/g, '').replace(/[\s-]+/g, '_').toLowerCase()
lvglNameOf(styleKey) ==
    LET kept == SelectSeq(styleKey, LAMBDA c : c \in WordChars \cup {" ", "-"})
        \* a run of spaces and hyphens leaves one underscore, at its last place
        collapsed == [i \in DOMAIN kept |->
                        IF kept[i] \notin {" ", "-"} THEN kept[i]
                        ELSE IF i < Len(kept) /\ kept[i + 1] \in {" ", "-"} THEN ""
                        ELSE "_"]
    IN  toLowerCase(SelectSeq(collapsed, LAMBDA c : c # ""))

\* hex.replace('#', to): the first '#' only
ReplaceHash(hex, to) ==
    IF \E i \in DOMAIN hex : hex[i] = "#"
    THEN LET i == CHOOSE i \in DOMAIN hex :
                    hex[i] = "#" /\ \A k \in 1..(i - 1) : hex[k] # "#"
         IN  SubSeq(hex, 1, i - 1) \o to \o SubSeq(hex, i + 1, Len(hex))
    ELSE hex

\* if (!obj[key]) obj[key] = value, for each entry in turn: an entry is
\* written when obj has no member of its key and no earlier entry has
\* written one; obj[key] on {} finds the members of Object.prototype too,
\* and of those the names in lower case are the ones a sanitized key can spell
AssignNew(obj, entries) ==
    LET inherited == { <<"c","o","n","s","t","r","u","c","t","o","r">>,
                       <<"_","_","p","r","o","t","o","_","_">> }
        written == { i \in DOMAIN entries :
                        /\ entries[i].key \notin inherited
                        /\ ~Has(obj, entries[i].key)
                        /\ \A j \in 1..(i - 1) : entries[j].key # entries[i].key }
        \* the k-th index of written, counted from the first
        nth[k \in 1..Cardinality(written)] ==
            CHOOSE i \in written : Cardinality({ j \in written : j < i }) = k - 1
    IN  [obj EXCEPT !.items = @ \o [k \in 1..Cardinality(written) |-> entries[nth[k]]]]

\* the key and the typography entry of one font of a record
FontExport(font) ==
    LET fontFamily == IF Truthy(font.fontFamily) THEN font.fontFamily
                      ELSE <<"u","n","k","n","o","w","n">>
        fontStyle == IF Truthy(font.fontStyle) THEN font.fontStyle
                     ELSE <<"r","e","g","u","l","a","r">>
        fontSize == IF font.fontSize.kind = "number" /\ font.fontSize.n = 0
                    THEN NumberSize(12) ELSE font.fontSize
        styleKey == IF Truthy(font.styleName) THEN font.styleName
                    ELSE fontFamily \o <<"_">> \o fontStyle \o <<"_">> \o SizeText(fontSize)
        lvglName == lvglNameOf(styleKey)
    IN  Entry(lvglName,
              [figma_style_name |-> font.styleName,
               font_family |-> fontFamily,
               font_size |-> fontSize,
               font_weight |-> fontStyle,
               lvgl_font |-> <<"&">> \o lvglName,
               lvgl_declaration |-> <<"L","V","_","F","O","N","T","_","D","E","C","L","A","R","E","(">>
                                       \o lvglName \o <<")",";">>])

\* the key and the colors entry of one colour of a record
ColorExport(color) ==
    LET hex == IF Truthy(color.hex) THEN color.hex ELSE <<"#","0","0","0","0","0","0">>
        rgb565 == IF Truthy(color.rgb565) THEN color.rgb565 ELSE hexToRgb565(hex)
        colorKey == IF Truthy(color.styleName) THEN color.styleName
                    ELSE ReplaceHash(hex, <<"c","o","l","o","r","_">>)
        lvglName == lvglNameOf(colorKey)
    IN  Entry(lvglName,
              [figma_style_name |-> color.styleName,
               hex |-> hex,
               rgb565 |-> rgb565,
               lvgl_color |-> <<"l","v","_","c","o","l","o","r","_","h","e","x","(">>
                                 \o ReplaceHash(hex, <<"0","x">>) \o <<")">>,
               lvgl_macro |-> <<"#","d","e","f","i","n","e"," ">> \o toUpperCase(lvglName)
                                 \o <<" ">> \o rgb565])

\* the loop over globalAnalysisData.entries(), from jsonData so far
RECURSIVE ExportRecords(_, _)
ExportRecords(jsonData, entries) ==
    IF entries = <<>> THEN jsonData
    ELSE LET analysisData == Head(entries).value IN
         ExportRecords(
             [typography |-> AssignNew(jsonData.typography,
                                [i \in DOMAIN analysisData.fonts |->
                                    FontExport(analysisData.fonts[i])]),
              colors |-> AssignNew(jsonData.colors,
                            [i \in DOMAIN analysisData.colors |->
                                ColorExport(analysisData.colors[i])])],
             Tail(entries))

generateLVGLJson(cache) == ExportRecords([colors |-> NewMap, typography |-> NewMap], cache.items)

-----------------------------------------------------------------------------
(* The host document the plugin runs against *)

\* what getMainComponentAsync resolves to: a plain component Btn, variant A
\* of the set Btn, a local component Btn without a key, an icon by its name
\* and an icon by a variant property
MainComponents ==
    LET Btn == <<"B","t","n">>
        PageParent == [type |-> "PAGE", name |-> <<"P","a","g","e">>]
        SetParent(name) == [type |-> "COMPONENT_SET", name |-> name]
        Component(name, key, id, parent, variantProperties) ==
            [name |-> name, key |-> key, id |-> id, parent |-> parent,
             variantProperties |-> variantProperties, variantPropertiesThrow |-> FALSE,
             readThrows |-> FALSE, width |-> 24, height |-> 24]
    IN  [ cBtn   |-> Component(Btn, <<"k","1">>, <<"1",":","1">>, PageParent, <<>>),
          cBtnA  |-> Component(<<"A">>, <<"k","2">>, <<"1",":","2">>, SetParent(Btn), <<>>),
          cLocal |-> Component(Btn, Null, <<"1",":","3">>, PageParent, <<>>),
          cIcon  |-> Component(<<"i","c","_","x">>, <<"k","4">>, <<"1",":","4">>,
                               PageParent, <<>>),
          cKind  |-> Component(<<"K","i","n","d","=","i","c","o","n","i","c">>,
                               <<"k","5">>, <<"1",":","5">>, SetParent(Btn),
                               << <<<<"K","i","n","d">>, <<"i","c","o","n","i","c">>>> >>) ]

NoSize == [kind |-> "undefined", n |-> 0]

\* the style ids the nodes carry
StyleIds ==
    [Primary |-> <<"s","1">>, Accent |-> <<"s","2">>, Shadow |-> <<"s","3">>,
     H1 |-> <<"s","4">>, Broken |-> <<"s","5">>, Gone |-> <<"s","6">>]

\* what figma.getStyleByIdAsync(id) does: a style, null, or a rejection
Styles ==
    LET Style(name, fontSize) == [outcome |-> "style", name |-> name, fontSize |-> fontSize]
    IN  (StyleIds.Primary :> Style(<<"P","r","i","m","a","r","y">>, NoSize))
        @@ (StyleIds.Accent :> Style(<<"A","c","c","e","n","t">>, NoSize))
        @@ (StyleIds.Shadow :> Style(<<"S","h","a","d","o","w">>, NoSize))
        @@ (StyleIds.H1 :> Style(<<"H","1">>, NumberSize(24)))
        @@ (StyleIds.Broken :> [outcome |-> "throws", name |-> Null, fontSize |-> NoSize])
        @@ (StyleIds.Gone :> [outcome |-> "null", name |-> Null, fontSize |-> NoSize])

\* the nodes of the page: the frames F1..F4, a rectangle R1 beside them, and
\* the descendants of the frames
Nodes ==
    LET Inter == <<"I","n","t","e","r">>
        Bold == <<"B","o","l","d">>
        Solid(color, opacity) ==
            [type |-> "SOLID", hasColor |-> TRUE, color |-> color, visible |-> TRUE,
             hasOpacity |-> TRUE, opacity |-> opacity]
        SolidDefault(color) == [Solid(color, 0) EXCEPT !.hasOpacity = FALSE]
        Gradient == [SolidDefault(<<0, 0, 0>>) EXCEPT !.type = "GRADIENT_LINEAR",
                                                       !.hasColor = FALSE]
        Red == <<1000, 0, 0>>
        Blue == <<0, 0, 1000>>
        White == <<1000, 1000, 1000>>
        Steel == <<200, 400, 600>>
        BaseNode(id, type) ==
            [id |-> id, type |-> type, visible |-> TRUE, width |-> 10, height |-> 10,
             removed |-> FALSE,
             mainComponent |-> "null", getMainComponentAsync |-> "null",
             hasFontName |-> FALSE, fontName |-> [family |-> <<>>, style |-> <<>>],
             fontSize |-> NoSize, textStyleId |-> Null,
             hasFills |-> FALSE, fills |-> <<>>, fillStyleId |-> Null,
             hasStrokes |-> FALSE, strokes |-> <<>>, strokeStyleId |-> Null,
             effectStyleId |-> Null]
        Instance(id, ref) ==
            [BaseNode(id, "INSTANCE") EXCEPT !.mainComponent = ref,
                                             !.getMainComponentAsync = ref,
                                             !.hasFills = TRUE, !.hasStrokes = TRUE]
        Shape(id, fills, strokes) ==
            [BaseNode(id, "RECTANGLE") EXCEPT !.hasFills = TRUE, !.fills = fills,
                                              !.hasStrokes = TRUE, !.strokes = strokes]
        Text(id, family, style, fontSize, textStyleId) ==
            [BaseNode(id, "TEXT") EXCEPT !.hasFontName = TRUE,
                                         !.fontName = [family |-> family, style |-> style],
                                         !.fontSize = fontSize, !.textStyleId = textStyleId,
                                         !.hasFills = TRUE, !.hasStrokes = TRUE]
        FrameRoot(id) ==
            [BaseNode(id, "FRAME") EXCEPT !.hasFills = TRUE, !.hasStrokes = TRUE,
                                          !.width = 800, !.height = 480]
    IN
    [ F1 |-> [FrameRoot("F1") EXCEPT !.fills = <<SolidDefault(White)>>,
                                     !.fillStyleId = StyleIds.Primary,
                                     !.effectStyleId = StyleIds.Shadow],
      F2 |-> [FrameRoot("F2") EXCEPT !.fills = <<Gradient>>],
      F3 |-> FrameRoot("F3"),
      F4 |-> FrameRoot("F4"),
      R1 |-> Shape("R1", <<SolidDefault(Red)>>, <<>>),
      \* descendants of F1
      a1 |-> Instance("a1", "cBtn"),
      a2 |-> [Instance("a2", "cBtn") EXCEPT !.fills = <<SolidDefault(Steel)>>],
      a3 |-> Instance("a3", "cBtnA"),
      a4 |-> [Instance("a4", "cIcon") EXCEPT !.mainComponent = "null",
                                              !.fills = <<SolidDefault(Blue)>>,
                                              !.effectStyleId = StyleIds.Shadow],
      a5 |-> [Text("a5", Inter, Bold, NumberSize(24), StyleIds.Broken)
                 EXCEPT !.fills = <<Solid(Red, 500)>>, !.fillStyleId = StyleIds.Broken],
      \* descendants of F2
      b1 |-> Instance("b1", "cBtn"),
      b2 |-> [Instance("b2", "cIcon") EXCEPT !.getMainComponentAsync = "throws",
                                              !.strokes = <<Solid(Steel, 1000)>>,
                                              !.strokeStyleId = StyleIds.Accent],
      b3 |-> Instance("b3", "cIcon"),
      b4 |-> Instance("b4", "cKind"),
      b5 |-> [Shape("b5", <<Solid(Red, 1000), Solid(Steel, 0), Gradient>>,
                       <<Solid(Red, 1000), Solid(Red, 250)>>)
                 EXCEPT !.fillStyleId = StyleIds.Gone, !.effectStyleId = StyleIds.Shadow],
      b6 |-> [Text("b6", Inter, Bold, NoSize, StyleIds.H1)
                 EXCEPT !.fills = <<Solid(Red, 1000)>>, !.fillStyleId = StyleIds.Primary],
      b7 |-> [Shape("b7", <<SolidDefault(Blue)>>, <<>>) EXCEPT !.visible = FALSE],
      \* descendants of F3
      c1 |-> Instance("c1", "cLocal"),
      c2 |-> Shape("c2", <<Solid(Red, 504), Solid(Red, 496)>>, <<Solid(Red, 504)>>),
      c3 |-> Text("c3", Inter, Bold, NumberSize(24), StyleIds.H1) ]

\* the frames of the page; F1 and F3 carry the same name, F4 is empty, and
\* the host lists c1 twice among the descendants of F3
Frames ==
    LET Home == <<"H","o","m","e">>
        Menu == <<"M","e","n","u">>
        Frame(id, name, descendants) ==
            [id |-> id, name |-> name, node |-> Nodes[id], descendants |-> descendants]
    IN  [ F1 |-> Frame("F1", Home, <<"a1", "a2", "a3", "a4", "a5">>),
          F2 |-> Frame("F2", Menu, <<"b1", "b2", "b3", "b4", "b5", "b6", "b7">>),
          F3 |-> Frame("F3", Home, <<"c1", "c2", "c1", "c3">>),
          F4 |-> Frame("F4", <<"E","m","p","t","y">>, <<>>) ]

FrameIds == DOMAIN Frames

\* the id figma.createFrame() gives the analysis frame made for a frame
AnalysisFrameIdFor == [ F1 |-> "A1", F2 |-> "A2", F3 |-> "A3", F4 |-> "A4" ]

\* node.type of a selectable node
TypeOf(id) ==
    IF id \in { AnalysisFrameIdFor[f] : f \in FrameIds } THEN "FRAME" ELSE Nodes[id].type

\* what the user can have selected when they press Analyze
Selections ==
    { <<>>, <<"R1">>, <<"F1", "R1">>, <<"F1">>, <<"F2">>, <<"F3">>, <<"F4">>,
      <<"F1", "F2">>, <<"F2", "F4", "F3">> }

-----------------------------------------------------------------------------
(* State of a message handler, and the history the properties read *)

Handlers == {"h1", "h2"}

\* the collections analyzeFrame creates, under its own names
FreshCollections == Ctx(NewMap, NewMap, NewMap, NewMap, NewSet, NewMap, NewSet)

IdleRun ==
    [pc |-> "idle",          \* idle, frame, nodes, ended
     type |-> "",            \* msg.type
     frames |-> <<>>,        \* selectedFrames
     i |-> 0,                \* index of the frame being handled, from 1
     allNodes |-> <<>>,      \* analyzeFrame: the filtered descendants
     j |-> 0,                \* index of the next node of allNodes, from 1
     elementCount |-> 0,     \* analyzeSelectedFrame: allNodes.length
     ctx |-> FreshCollections,
     awaiting |-> FALSE,     \* the call is suspended at an await on the host
     resolved |-> <<>>,      \* history: keys the instances of this pass resolved to
     visits |-> <<>>,        \* history: nodes on which analyzeNode had an effect
     stored |-> {},          \* history: indices of frames stored by this request
     failedAt |-> 0,         \* history: index of the frame whose handling threw
     out |-> <<>>,           \* types of the messages posted, progress left out
     data |-> <<>>]          \* the data of the jsonExport message posted, or the
                             \* framesList of the last framesListUpdated message

NoPass ==
    [valid |-> FALSE, frame |-> "", nodes |-> <<>>, raw |-> <<>>, normalized |-> <<>>,
     resolved |-> <<>>, visits |-> <<>>, again |-> FALSE]

Idle(h) == run[h].pc \in {"idle", "ended"}

-----------------------------------------------------------------------------
(* validateSelection *)

\* a validation that lets the frames of a mixed selection through
validateSelection_FramesOfMixed(sel) ==
    LET frameNodes == SelectSeq(sel, LAMBDA id : TypeOf(id) = "FRAME") IN
    IF Len(sel) = 0 THEN [isValid |-> FALSE, frames |-> <<>>]
    ELSE IF Len(frameNodes) = 0 THEN [isValid |-> FALSE, frames |-> <<>>]
    ELSE [isValid |-> TRUE, frames |-> frameNodes]

validateSelection(sel) ==
    LET frameNodes == SelectSeq(sel, LAMBDA id : TypeOf(id) = "FRAME") IN
    IF Len(sel) = 0 THEN [isValid |-> FALSE, frames |-> <<>>]
    ELSE IF Len(frameNodes) = 0 THEN [isValid |-> FALSE, frames |-> <<>>]
    ELSE IF Len(frameNodes) < Len(sel) THEN [isValid |-> FALSE, frames |-> <<>>]
    ELSE [isValid |-> TRUE, frames |-> frameNodes]

-----------------------------------------------------------------------------
(* Frame history: getAnalyzedFramesList, getFilteredAnalyzedFramesList *)

getAnalyzedFramesList == IF docData.present THEN docData.list ELSE clientData

\* only entries whose analysis frame is still on the "Frames Analysed" page
getFilteredAnalyzedFramesList ==
    [getAnalyzedFramesList EXCEPT !.items =
        SelectSeq(@, LAMBDA e :
            \E k \in DOMAIN analysisFrames : analysisFrames[k].id = e.value.analysisFrameId)]

HistoryKeys(list) == [k \in DOMAIN list.items |-> list.items[k].key]

-----------------------------------------------------------------------------
(* analyzeSelectedFrame, as the steps between its suspension points *)

\* the entry of analyzeSelectedFrame: validation of the current selection
Started(type, sel) ==
    LET validationResult == validateSelection(sel) IN
    IF ~validationResult.isValid
    THEN [IdleRun EXCEPT !.pc = "ended", !.type = type, !.out = <<"error">>]
    ELSE [IdleRun EXCEPT !.pc = "frame", !.type = type,
                         !.frames = validationResult.frames, !.i = 1]

\* no handler is suspended inside analyzeSelectedFrame
Quiescent == \A g \in Handlers : Idle(g)

\* JavaScript runs one call at a time: a call goes on, or a message is
\* delivered, only while every other call waits for the host
OthersSuspended(h) == \A g \in Handlers \ {h} : Idle(g) \/ run[g].awaiting

\* onmessage is called for every message: the call runs as handler h1 when
\* no other call is suspended, as h2 when one is (overlapping says which)
Takes(h, overlapping) ==
    /\ Idle(h)
    /\ IF overlapping THEN ~Quiescent /\ OthersSuspended(h) /\ requests <= MaxOverlapAt
       ELSE Quiescent /\ h = "h1"

Dispatch(h, type, sel, overlapping) ==
    /\ requests < MaxRequests
    /\ Takes(h, overlapping)
    /\ selection' = sel
    /\ run' = [run EXCEPT ![h] = Started(type, sel)]
    /\ requests' = IF overlapping THEN MaxRequests ELSE requests + 1
    /\ UNCHANGED <<processedNodes, globalAnalysisData, analysisFrames, docData,
                   clientData, summaryData, trace, probe, fontVars>>

\* reAnalyzeAll with nothing to re-analyse: an error message, nothing else
DispatchNothing(h, overlapping) ==
    /\ requests < MaxRequests
    /\ Takes(h, overlapping)
    /\ run' = [run EXCEPT ![h] = [IdleRun EXCEPT !.pc = "ended", !.type = "reAnalyzeAll",
                                                 !.out = <<"error">>]]
    /\ requests' = requests + 1
    /\ UNCHANGED <<selection, processedNodes, globalAnalysisData, analysisFrames,
                   docData, clientData, summaryData, trace, probe, fontVars>>

\* msg.type = 'analyze-frame', the user having selected sel
AnalyzeFrameMsg(h, sel) == Dispatch(h, "analyze-frame", sel, FALSE)

\* msg.type = 'reAnalyzeFrame' for a frame of the list shown by the UI
ReAnalyzeFrameMsg(h, frameId) ==
    /\ Has(getFilteredAnalyzedFramesList, frameId)
    /\ TypeOf(frameId) \in {"FRAME", "COMPONENT"}
    /\ Dispatch(h, "reAnalyzeFrame", <<frameId>>, FALSE)

\* msg.type = 'reAnalyzeAll'
ReAnalyzeAllMsg(h) ==
    LET validFrames == SelectSeq(HistoryKeys(getFilteredAnalyzedFramesList),
                                 LAMBDA id : TypeOf(id) \in {"FRAME", "COMPONENT"})
    IN  IF Len(validFrames) > 0
        THEN Dispatch(h, "reAnalyzeAll", validFrames, FALSE)
        ELSE DispatchNothing(h, FALSE)

\* msg.type = 'exportJson': a warning when there is nothing to export, the
\* document and a success message otherwise
ExportJsonMsg(h) ==
    /\ requests < MaxRequests
    /\ Takes(h, FALSE)
    /\ LET jsonData == generateLVGLJson(globalAnalysisData) IN
       run' = [run EXCEPT ![h] =
                 IF Len(jsonData.typography.items) = 0 /\ Len(jsonData.colors.items) = 0
                 THEN [IdleRun EXCEPT !.pc = "ended", !.type = "exportJson",
                                      !.out = <<"warning">>]
                 ELSE [IdleRun EXCEPT !.pc = "ended", !.type = "exportJson",
                                      !.out = <<"jsonExport", "success">>,
                                      !.data = jsonData]]
    /\ requests' = requests + 1
    /\ UNCHANGED <<selection, processedNodes, globalAnalysisData, analysisFrames,
                   docData, clientData, summaryData, trace, probe, fontVars>>

\* msg.type = 'clearFramesList': the list of the client storage is set to
\* {} and an empty list is posted
ClearFramesListMsg(h) ==
    /\ requests < MaxRequests
    /\ Takes(h, FALSE)
    /\ clientData' = NewMap
    /\ run' = [run EXCEPT ![h] = [IdleRun EXCEPT !.pc = "ended", !.type = "clearFramesList",
                                                 !.out = <<"framesListUpdated">>]]
    /\ requests' = requests + 1
    /\ UNCHANGED <<selection, processedNodes, globalAnalysisData, analysisFrames,
                   docData, summaryData, trace, probe, fontVars>>

\* msg.type = 'getFramesList': cleanupAnalyzedFrames, which drops the frames
\* that are gone and, when it dropped one, writes the list to both stores and
\* posts it, then the filtered list is posted; getAnalyzedFramesList copies a
\* list found in the client storage only to the document
GetFramesListMsg(h) ==
    /\ requests < MaxRequests
    /\ Takes(h, FALSE)
    /\ LET framesList == getAnalyzedFramesList
           updatedFramesList ==
               [framesList EXCEPT !.items =
                   SelectSeq(@, LAMBDA e : TypeOf(e.key) \in {"FRAME", "COMPONENT"})]
           hasChanges == updatedFramesList # framesList
           filtered ==
               SelectSeq(updatedFramesList.items, LAMBDA e :
                   \E k \in DOMAIN analysisFrames :
                       analysisFrames[k].id = e.value.analysisFrameId)
           posted == [k \in DOMAIN filtered |-> filtered[k].value]
       IN  /\ docData' = IF hasChanges \/ (~docData.present /\ Len(framesList.items) > 0)
                         THEN [present |-> TRUE, list |-> updatedFramesList]
                         ELSE docData
           /\ clientData' = IF hasChanges THEN updatedFramesList ELSE clientData
           /\ run' = [run EXCEPT ![h] =
                        [IdleRun EXCEPT !.pc = "ended", !.type = "getFramesList",
                                        !.out = IF hasChanges
                                                THEN <<"framesListUpdated", "framesListUpdated">>
                                                ELSE <<"framesListUpdated">>,
                                        !.data = posted]]
    /\ requests' = requests + 1
    /\ UNCHANGED <<selection, processedNodes, globalAnalysisData, analysisFrames,
                   summaryData, trace, probe, fontVars>>

AtFrame(h) == run[h].pc = "frame" /\ run[h].i <= Len(run[h].frames) /\ OthersSuspended(h)
CurrentFrame(h) == Frames[run[h].frames[run[h].i]]

\* the catch of analyzeSelectedFrame: one error message, and the function ends
Caught(r) ==
    [r EXCEPT !.pc = "ended", !.awaiting = FALSE, !.failedAt = r.i,
              !.out = Append(@, "error")]

\* reading the frame throws (the node was removed meanwhile)
FrameThrows(h) ==
    /\ AtFrame(h)
    /\ run' = [run EXCEPT ![h] = Caught(@)]
    /\ UNCHANGED <<selection, processedNodes, globalAnalysisData, analysisFrames,
                   docData, clientData, summaryData, trace, requests, probe, fontVars>>

\* selectedNode.children.length === 0: continue
SkipEmptyFrame(h) ==
    /\ AtFrame(h)
    /\ Len(CurrentFrame(h).descendants) = 0
    /\ run' = [run EXCEPT ![h].i = @ + 1, ![h].awaiting = FALSE]
    /\ UNCHANGED <<selection, processedNodes, globalAnalysisData, analysisFrames,
                   docData, clientData, summaryData, trace, requests, probe, fontVars>>

\* frame.findAll(node => node.visible !== false && (node.width >= 1 || node.height >= 1))
findAllVisible(frame) ==
    SelectSeq(frame.descendants,
              LAMBDA id : Nodes[id].visible /\ (Nodes[id].width >= 1 \/ Nodes[id].height >= 1))

\* analyzeNode(frame, components, fonts, colors, colorStyles, textStyles,
\* effectStyles): seven arguments for eight parameters, so each collection
\* after components is bound to the parameter before its own
RootCallArguments(c) ==
    Ctx(c.components, c.fonts, c.colors, c.colorStyles, c.textStyles, c.effectStyles, Undefined)

\* the caller's collections after the call: objects are shared by reference
RootCallResult(c, p) ==
    Ctx(p.components, c.icons, p.icons, p.fonts, p.colors, p.colorStyles, p.textStyles)

analyzeRoot(frame, processed, c) ==
    LET res == analyzeNode(frame.node, MainComponents, Styles, processed, RootCallArguments(c))
    IN  [ctx |-> RootCallResult(c, res.ctx), processed |-> res.processed]

HasSolid(paints) ==
    \E i \in DOMAIN paints :
        /\ paints[i].type = "SOLID" /\ paints[i].hasColor /\ paints[i].visible
        /\ ~(paints[i].hasOpacity /\ paints[i].opacity = 0)

\* analyzeNode waits for the host (getMainComponentAsync, getStyleByIdAsync)
\* while it handles node; the root call is left by the first colors.set
Suspends(node, processed, atRoot) ==
    LET gated == \/ node.removed \/ node.type = "" \/ node.id \in processed
                 \/ ~node.visible \/ (node.width < 1 /\ node.height < 1)
        instance == node.type = "INSTANCE"
        fills == node.hasFills /\ HasSolid(node.fills)
        strokes == node.hasStrokes /\ HasSolid(node.strokes)
    IN  /\ ~gated
        /\ IF instance /\ node.mainComponent = "null" THEN FALSE
           ELSE \/ instance
                \/ node.hasFontName /\ Truthy(node.textStyleId)
                \/ fills /\ Truthy(node.fillStyleId)
                \/ ~(atRoot /\ fills) /\ strokes /\ Truthy(node.strokeStyleId)
                \/ ~(atRoot /\ (fills \/ strokes)) /\ Truthy(node.effectStyleId)

\* the key an INSTANCE node resolves to, or Null
ResolvedKey(node) ==
    IF /\ node.type = "INSTANCE"
       /\ node.mainComponent # "null"
       /\ node.getMainComponentAsync \notin {"throws", "null"}
       /\ Truthy(MainComponents[node.getMainComponentAsync].name)
    THEN VariantKeyOf(MainComponents[node.getMainComponentAsync])
    ELSE Null

\* the history of one analyzeNode call
Noted(r, node, before, after) ==
    [r EXCEPT
        !.visits = IF after # before THEN Append(@, node.id) ELSE @,
        !.resolved = IF after.processed # before.processed /\ Truthy(ResolvedKey(node))
                     THEN Append(@, ResolvedKey(node)) ELSE @]

\* analyzeFrame without processedNodes.clear()
StartExtraction_NoClear(h) ==
    /\ AtFrame(h)
    /\ Len(CurrentFrame(h).descendants) > 0
    /\ LET frame == CurrentFrame(h)
           before == [ctx |-> FreshCollections, processed |-> processedNodes]
       IN  \E after \in { analyzeRoot(frame, processedNodes, FreshCollections) } :
           /\ processedNodes' = after.processed
           /\ run' = [run EXCEPT ![h] =
                        Noted([@ EXCEPT !.pc = "nodes",
                                        !.elementCount = Len(frame.descendants),
                                        !.allNodes = findAllVisible(frame),
                                        !.j = 1,
                                        !.ctx = after.ctx,
                                        !.awaiting = Suspends(frame.node, processedNodes, TRUE),
                                        !.visits = <<>>,
                                        !.resolved = <<>>],
                              frame.node, before, after)]
    /\ UNCHANGED <<selection, globalAnalysisData, analysisFrames, docData, clientData,
                   summaryData, trace, requests, probe, fontVars>>

\* analyzeFrame up to its loop: processedNodes.clear(), findAll, the root
StartExtraction(h) ==
    /\ AtFrame(h)
    /\ Len(CurrentFrame(h).descendants) > 0
    /\ LET frame == CurrentFrame(h)
           before == [ctx |-> FreshCollections, processed |-> {}]
       IN  \E after \in { analyzeRoot(frame, {}, FreshCollections) } :
           /\ processedNodes' = after.processed
           /\ run' = [run EXCEPT ![h] =
                        Noted([@ EXCEPT !.pc = "nodes",
                                        !.elementCount = Len(frame.descendants),
                                        !.allNodes = findAllVisible(frame),
                                        !.j = 1,
                                        !.ctx = after.ctx,
                                        !.awaiting = Suspends(frame.node, {}, TRUE),
                                        !.visits = <<>>,
                                        !.resolved = <<>>],
                              frame.node, before, after)]
    /\ UNCHANGED <<selection, globalAnalysisData, analysisFrames, docData, clientData,
                   summaryData, trace, requests, probe, fontVars>>

\* a loop that does not move on from a node already in processedNodes
AnalyzeNodeStep_RetriesProcessed(h) ==
    /\ run[h].pc = "nodes"
    /\ OthersSuspended(h)
    /\ run[h].j <= Len(run[h].allNodes)
    /\ LET node == Nodes[run[h].allNodes[run[h].j]]
           before == [ctx |-> run[h].ctx, processed |-> processedNodes]
       IN  \E after \in { analyzeNode(node, MainComponents, Styles, processedNodes,
                                       run[h].ctx) } :
           /\ processedNodes' = after.processed
           /\ run' = [run EXCEPT ![h] =
                        Noted([@ EXCEPT !.j = IF node.id \in processedNodes THEN @ ELSE @ + 1,
                                        !.ctx = after.ctx,
                                        !.awaiting = Suspends(node, processedNodes, FALSE)],
                              node, before, after)]
    /\ UNCHANGED <<selection, globalAnalysisData, analysisFrames, docData, clientData,
                   summaryData, trace, requests, probe, fontVars>>

\* one turn of the loop over allNodes
AnalyzeNodeStep(h) ==
    /\ run[h].pc = "nodes"
    /\ OthersSuspended(h)
    /\ run[h].j <= Len(run[h].allNodes)
    /\ LET node == Nodes[run[h].allNodes[run[h].j]]
           before == [ctx |-> run[h].ctx, processed |-> processedNodes]
       IN  \E after \in { analyzeNode(node, MainComponents, Styles, processedNodes,
                                       run[h].ctx) } :
           /\ processedNodes' = after.processed
           /\ run' = [run EXCEPT ![h] =
                        Noted([@ EXCEPT !.j = @ + 1, !.ctx = after.ctx,
                                        !.awaiting = Suspends(node, processedNodes, FALSE)],
                              node, before, after)]
    /\ UNCHANGED <<selection, globalAnalysisData, analysisFrames, docData, clientData,
                   summaryData, trace, requests, probe, fontVars>>


AnalysisPrefix == <<"A","n","a","l","y","s","i","s",":"," ">>

\* `Analysis: ${name} (${timestamp})`; the time of day is left abstract
AnalysisFrameName(name) == AnalysisPrefix \o name \o <<" ","(","t",")">>

\* findExistingAnalysisFrame: the first frame of the analysis page whose
\* name starts with `Analysis: ${originalFrame.name}`, or 0
findExistingAnalysisFrame(page, originalFrame) ==
    IF \E k \in DOMAIN page : startsWith(page[k].name, AnalysisPrefix \o originalFrame.name)
    THEN CHOOSE k \in DOMAIN page :
            /\ startsWith(page[k].name, AnalysisPrefix \o originalFrame.name)
            /\ \A m \in 1..(k - 1) :
                  ~startsWith(page[m].name, AnalysisPrefix \o originalFrame.name)
    ELSE 0

\* createAnalysisFrame: the analysis page afterwards
createAnalysisFrame(page, originalFrame, analysisData) ==
    LET k == findExistingAnalysisFrame(page, originalFrame)
        name == AnalysisFrameName(analysisData.frameInfo.name)
    IN  IF k # 0 THEN [page EXCEPT ![k].name = name]
        ELSE Append(page, [id |-> AnalysisFrameIdFor[originalFrame.id], name |-> name])

\* the frame createAnalysisFrame returns
AnalysisFrameOf(page, originalFrame) == page[findExistingAnalysisFrame(page, originalFrame)]

\* saveAnalyzedFrame: the list written to both stores (lastAnalyzed left out)
saveAnalyzedFrame(framesList, frameId, frameData) ==
    MapSet(framesList, frameId,
           [id |-> frameId, name |-> frameData.name,
            elementCount |-> frameData.elementCount,
            analysisFrameId |-> frameData.analysisFrameId, exists |-> TRUE])

\* analyzeFrame after its loop, then normalisation, the cache, the analysis
\* frame and the frame history; created = FALSE when createAnalysisFrame throws
FinishFrame(h, created) ==
    /\ run[h].pc = "nodes"
    /\ OthersSuspended(h)
    /\ run[h].j > Len(run[h].allNodes)
    /\ \E frame \in { CurrentFrame(h) } :
       \E raw \in { AnalysisRecord(frame, Len(run[h].allNodes), run[h].ctx) } :
       \E analysisData \in { normalizeComponentIconClassification(raw) } :
       \E page \in { createAnalysisFrame(analysisFrames, frame, analysisData) } :
       LET analysisFrame == AnalysisFrameOf(page, frame)
           framesList == saveAnalyzedFrame(getAnalyzedFramesList, frame.id,
                            [name |-> frame.name, elementCount |-> run[h].elementCount,
                             analysisFrameId |-> analysisFrame.id])
       IN  /\ globalAnalysisData' = storeAnalysisData(globalAnalysisData, frame.name, analysisData)
           /\ trace' = [trace EXCEPT !.lastPass =
                          [valid |-> TRUE, frame |-> frame.id, nodes |-> run[h].allNodes,
                           raw |-> raw, normalized |-> analysisData,
                           resolved |-> run[h].resolved, visits |-> run[h].visits,
                           again |-> Has(globalAnalysisData, frame.name)]]
           /\ IF created
              THEN /\ analysisFrames' = page
                   /\ selection' = <<analysisFrame.id>>
                   /\ docData' = [present |-> TRUE, list |-> framesList]
                   /\ clientData' = framesList
                   /\ run' = [run EXCEPT ![h].pc = "frame", ![h].i = @ + 1,
                                         ![h].awaiting = TRUE,
                                         ![h].stored = @ \cup {run[h].i}]
              ELSE /\ run' = [run EXCEPT ![h] = Caught([@ EXCEPT !.stored = @ \cup {run[h].i}])]
                   /\ UNCHANGED <<analysisFrames, selection, docData, clientData>>
    /\ UNCHANGED <<processedNodes, summaryData, requests, probe, fontVars>>

\* after the loop over the frames: createOrUpdateSummaryAnalysis, success
Summarize(h) ==
    /\ run[h].pc = "frame"
    /\ OthersSuspended(h)
    /\ run[h].i > Len(run[h].frames)
    /\ summaryData' = collectSummaryData(globalAnalysisData, Len(analysisFrames))
    /\ trace' = [trace EXCEPT !.summaryInput = globalAnalysisData]
    /\ run' = [run EXCEPT ![h].pc = "ended", ![h].awaiting = FALSE,
                          ![h].out = Append(@, "success")]
    /\ UNCHANGED <<selection, processedNodes, globalAnalysisData, analysisFrames,
                   docData, clientData, requests, probe, fontVars>>

-----------------------------------------------------------------------------
(* The font caches *)

Font(family, style) == [family |-> family, style |-> style]

\* `${fontName.family}-${fontName.style}`
FontCacheKey(fontName) == fontName.family \o <<"-">> \o fontName.style

-----------------------------------------------------------------------------
(* The plugin *)

\* the plugin as it is loaded, and as it is when every analysis so far
\* ended in the catch after storeAnalysisData: only the cache is filled
LoadedWith(cache) ==
    /\ selection = <<>>
    /\ processedNodes = {}
    /\ globalAnalysisData = cache
    /\ run = [h \in Handlers |-> IdleRun]
    /\ analysisFrames = <<>>
    /\ docData = [present |-> FALSE, list |-> NewMap]
    /\ clientData = NewMap
    /\ summaryData = collectSummaryData(NewMap, 0)
    /\ trace = [lastPass |-> NoPass, summaryInput |-> NewMap]
    /\ requests = 0
    /\ fontCache = NewMap
    /\ availableFonts = Null
    /\ fontScanPromise = FALSE
    /\ fontCalls = [c \in Handlers |->
                       [pc |-> "idle", fontName |-> Font(<<>>, <<>>), candidates |-> <<>>,
                        at |-> 0, returned |-> Font(<<>>, <<>>)]]
    /\ fontScans = 0

NoProbe == [of |-> "", input |-> <<>>, done |-> FALSE, output |-> <<>>]

Init == LoadedWith(NewMap) /\ probe = NoProbe

-----------------------------------------------------------------------------
(* isComponentAnIcon called on its own *)

\* the components handed to the classifier: by name, by parent, by variant
\* properties (with a getter that throws), by size, and one whose properties
\* throw when read
ClassifierInputs ==
    LET names == { <<"i","c","_","c","l","o","s","e">>,
                   <<"B","u","t","t","o","n","/","I","c","o","n">>,
                   <<"i","c","o","n","o","g","r","a","p","h","y","_","p","a","n","e","l">>,
                   <<"P","r","i","m","a","r","y","B","u","t","t","o","n">>,
                   <<"I","C">>, <<"m","u","s","i","c">>, <<"i","c","2">>,
                   <<" ","m","y","-","i","c","o","n"," ">>, <<"a"," ","i","c"," ","b">>,
                   <<"n","a","v","=","i","c","o","n",":","x">>,
                   <<"I","c","o","n","s">>, <<"X">> }
        parents == { [type |-> "PAGE", name |-> <<"I","c","o","n">>],
                     [type |-> "FRAME", name |-> <<"i","c">>],
                     [type |-> "COMPONENT_SET", name |-> <<"C","a","r","d">>],
                     [type |-> "COMPONENT_SET", name |-> <<"I","c","o","n","/","C","l","o","s","e">>],
                     [type |-> "COMPONENT_SET", name |-> <<"t","o","p","i","c","s">>] }
        properties == { <<>>,
                        << <<<<"S","i","z","e">>, <<"b","i","g">>>> >>,
                        << <<<<"S","i","z","e">>, <<"b","i","g">>>>,
                           <<<<"H","a","s","I","c","o","n","s">>, <<"n","o">>>> >>,
                        << <<<<"K","i","n","d">>, <<"l","e","x","i","c","o","n">>>> >> }
        sizes == { <<24, 24>>, <<0, 0>>, <<400, 300>> }
    IN  { [name |-> n, key |-> <<"k">>, id |-> <<"1",":","9">>, parent |-> p,
           variantProperties |-> v, variantPropertiesThrow |-> t, readThrows |-> r,
           width |-> z[1], height |-> z[2]] :
            n \in names, p \in parents, v \in properties, t \in BOOLEAN, r \in BOOLEAN,
            z \in sizes }

InitClassifier ==
    /\ LoadedWith(NewMap)
    /\ \E c \in ClassifierInputs : probe = [of |-> "isComponentAnIcon", input |-> c,
                                           done |-> FALSE, output |-> <<>>]

\* const isIcon = isComponentAnIcon(mainComponent)
Classify ==
    /\ probe.of = "isComponentAnIcon"
    /\ ~probe.done
    /\ probe' = [probe EXCEPT !.done = TRUE,
                              !.output = IF isComponentAnIcon(probe.input)
                                         THEN "icon" ELSE "component"]
    /\ UNCHANGED <<selection, processedNodes, globalAnalysisData, run, analysisFrames,
                   docData, clientData, summaryData, trace, requests, fontVars>>

SpecClassifier == InitClassifier /\ [][Classify]_vars

-----------------------------------------------------------------------------
(* analyzeFrame called on its own, on a frame whose nodes are drawn from a
   pool, with the size of its batches as a parameter *)

\* the loop over one batch
RECURSIVE analyzeBatch(_, _, _, _)
analyzeBatch(batch, nodes, styles, st) ==
    IF batch = <<>> THEN st
    ELSE LET node == nodes[Head(batch)]
             after == IF node.type # "" /\ ~node.removed
                      THEN analyzeNode(node, MainComponents, styles, st.processed, st.ctx)
                      ELSE [ctx |-> st.ctx, processed |-> st.processed]
         IN  analyzeBatch(Tail(batch), nodes, styles,
                          [st EXCEPT !.ctx = after.ctx, !.processed = after.processed])

\* a loop that starts each batch with an empty colors Map
RECURSIVE analyzeInBatches_ColorsPerBatch(_, _, _, _, _, _)
analyzeInBatches_ColorsPerBatch(allNodes, i, batchSize, nodes, styles, st) ==
    IF i >= Len(allNodes) THEN st
    ELSE LET upTo == IF i + batchSize < Len(allNodes) THEN i + batchSize ELSE Len(allNodes)
             after == analyzeBatch(SubSeq(allNodes, i + 1, upTo), nodes, styles,
                                   [st EXCEPT !.ctx.colors = NewMap])
         IN  analyzeInBatches_ColorsPerBatch(allNodes, i + batchSize, batchSize, nodes, styles,
                 [after EXCEPT
                     !.batches = Append(@, upTo - i),
                     !.progress = IF upTo % 200 = 0 \/ upTo = Len(allNodes)
                                  THEN Append(@, upTo) ELSE @])

\* for (let i = 0; i < allNodes.length; i += batchSize): the batch from i,
\* then the progress message
RECURSIVE analyzeInBatches(_, _, _, _, _, _)
analyzeInBatches(allNodes, i, batchSize, nodes, styles, st) ==
    IF i >= Len(allNodes) THEN st
    ELSE LET upTo == IF i + batchSize < Len(allNodes) THEN i + batchSize ELSE Len(allNodes)
             after == analyzeBatch(SubSeq(allNodes, i + 1, upTo), nodes, styles, st)
         IN  analyzeInBatches(allNodes, i + batchSize, batchSize, nodes, styles,
                 [after EXCEPT
                     !.batches = Append(@, upTo - i),
                     !.progress = IF upTo % 200 = 0 \/ upTo = Len(allNodes)
                                  THEN Append(@, upTo) ELSE @])

\* analyzeFrame(frame) with allNodes what findAll returned: the record, the
\* lengths of the batches and the counts of the progress messages
analyzeFrame(frame, allNodes, batchSize, nodes, styles) ==
    LET root == analyzeNode(frame.node, MainComponents, styles, {},
                            RootCallArguments(FreshCollections))
        end == analyzeInBatches(allNodes, 0, batchSize, nodes, styles,
                                [ctx |-> RootCallResult(FreshCollections, root.ctx),
                                 processed |-> root.processed,
                                 batches |-> <<>>, progress |-> <<>>])
    IN  [record |-> AnalysisRecord(frame, Len(allNodes), end.ctx),
         processed |-> end.processed,
         batches |-> end.batches,
         progress |-> end.progress]

\* the styles of the pool: those of the page, two colour styles and two
\* text styles whose names differ in case and separators only, and a colour
\* style named after a member of Object.prototype
PoolStyles ==
    LET Style(name) == [outcome |-> "style", name |-> name, fontSize |-> NoSize]
    IN  Styles
        @@ (<<"p","1">> :> Style(<<"P","r","i","m","a","r","y"," ","C","o","l","o","r">>))
        @@ (<<"p","2">> :> Style(<<"p","r","i","m","a","r","y","-","c","o","l","o","r">>))
        @@ (<<"p","3">> :> Style(<<"C","o","n","s","t","r","u","c","t","o","r">>))
        @@ (<<"p","4">> :> Style(<<"h","1">>))
        @@ (<<"p","5">> :> Style(<<"B","l","u","r">>))

\* the pool: five text nodes of one family and style, five rectangles
\* painted red, and an instance
PoolNodes ==
    LET text == [Nodes.c3 EXCEPT !.textStyleId = Null]
        shape == Nodes.R1
        red == Nodes.b5.fills[1]
    IN  [ t1 |-> [text EXCEPT !.id = "t1"],
          t2 |-> [text EXCEPT !.id = "t2", !.textStyleId = StyleIds.H1],
          \* a text with more than one size: fontSize is figma.mixed
          t3 |-> [text EXCEPT !.id = "t3", !.textStyleId = <<"p","4">>,
                              !.fontSize = [kind |-> "mixed", n |-> 0]],
          t4 |-> [text EXCEPT !.id = "t4", !.textStyleId = <<"p","4">>],
          \* a smaller text, painted in another colour
          t5 |-> [text EXCEPT !.id = "t5", !.fontSize = NumberSize(16),
                              !.fills = <<[red EXCEPT !.color = <<200, 400, 600>>]>>,
                              !.effectStyleId = StyleIds.Shadow],
          s1 |-> [shape EXCEPT !.id = "s1",
                               !.strokes = <<[red EXCEPT !.color = <<200, 400, 600>>,
                                                         !.opacity = 0]>>],
          s2 |-> [shape EXCEPT !.id = "s2", !.fills = <<red>>, !.fillStyleId = <<"p","1">>,
                               !.strokes = <<red>>],
          s3 |-> [shape EXCEPT !.id = "s3", !.fills = <<[red EXCEPT !.opacity = 504]>>,
                               !.fillStyleId = <<"p","2">>],
          s4 |-> [shape EXCEPT !.id = "s4", !.fills = <<[red EXCEPT !.opacity = 496]>>,
                               !.fillStyleId = <<"p","3">>],
          s5 |-> [shape EXCEPT !.id = "s5", !.fills = <<[red EXCEPT !.opacity = 996]>>,
                               !.effectStyleId = <<"p","5">>],
          i1 |-> [Nodes.a1 EXCEPT !.id = "i1"] ]

\* what findAll returns: up to n nodes of the pool, a node possibly twice
PoolDocs(n) == UNION { [1..k -> DOMAIN PoolNodes] : k \in 0..n }

\* the frame analyzeFrame is handed: a frame without paints of its own
PoolFrame == Frames.F3

InitExtraction ==
    /\ LoadedWith(NewMap)
    /\ \E doc \in PoolDocs(MaxDocLen), batchSize \in {1, 2, 50} :
          probe = [of |-> "analyzeFrame",
                   input |-> [allNodes |-> doc, batchSize |-> batchSize],
                   done |-> FALSE, output |-> <<>>]

\* const analysisData = await analyzeFrame(selectedNode)
Extract ==
    /\ probe.of = "analyzeFrame"
    /\ ~probe.done
    /\ LET result == analyzeFrame(PoolFrame, probe.input.allNodes, probe.input.batchSize,
                                  PoolNodes, PoolStyles)
       IN  /\ probe' = [probe EXCEPT !.done = TRUE, !.output = result]
           /\ processedNodes' = result.processed
    /\ UNCHANGED <<selection, globalAnalysisData, run, analysisFrames, docData,
                   clientData, summaryData, trace, requests, fontVars>>

SpecExtraction == InitExtraction /\ [][Extract]_vars

-----------------------------------------------------------------------------
(* exportJson with a cache of records analyzeFrame built from the pool *)

\* storeAnalysisData for the frames named in names, the i-th with the
\* nodes docs[i]
PoolCache(names, docs) ==
    [kind |-> "Map",
     items |-> [i \in DOMAIN docs |->
                  Entry(names[i],
                        normalizeComponentIconClassification(
                            analyzeFrame([PoolFrame EXCEPT !.name = names[i]], docs[i], 50,
                                         PoolNodes, PoolStyles).record))]]

\* the cache after no analysis, after the analysis of one frame of up to
\* MaxDocLen nodes, or of two frames of up to one node
PoolCaches ==
    { PoolCache(<<Frames.F1.name>>, <<doc>>) : doc \in PoolDocs(MaxDocLen) }
        \cup { PoolCache(<<Frames.F1.name, Frames.F2.name>>, <<first, second>>) :
                    first \in PoolDocs(1), second \in PoolDocs(1) }
        \cup { NewMap }

InitExport ==
    /\ \E cache \in PoolCaches : LoadedWith(cache)
    /\ probe = NoProbe

SpecExport == InitExport /\ [][\E h \in Handlers : ExportJsonMsg(h)]_vars

-----------------------------------------------------------------------------
(* loadFontCached called by requests whose awaits interleave: fontCalls[c] is
   the call of caller c, "first" while figma.loadFontAsync(fontName) is
   pending, "fallback" while the load of candidates[at] is pending *)

\* getAvailableFonts(): the list it resolves to when the scan finds the fonts
\* of `found` (the Set of the scan holds one key per font)
getAvailableFonts(found) ==
    IF availableFonts # Null \/ fontScanPromise THEN availableFonts
    ELSE LET \* const [family, style] = fontKey.split('-')
             Split(key) ==
                 LET dashes == { i \in DOMAIN key : key[i] = "-" } \cup {Len(key) + 1}
                     first == CHOOSE i \in dashes : \A j \in dashes : i <= j
                     later == { i \in dashes : i > first } \cup {Len(key) + 1}
                     second == CHOOSE i \in later : \A j \in later : i <= j
                 IN  Font(SubSeq(key, 1, first - 1), SubSeq(key, first + 1, second - 1))
             fonts == [i \in DOMAIN found |-> Split(FontCacheKey(found[i]))]
         IN  IF Len(fonts) > 0 THEN fonts
             ELSE << Font(<<"A","r","i","a","l">>, <<"R","e","g","u","l","a","r">>),
                     Font(<<"H","e","l","v","e","t","i","c","a">>, <<"R","e","g","u","l","a","r">>),
                     Font(<<"T","i","m","e","s">>, <<"R","e","g","u","l","a","r">>) >>

\* loadFontCached(fontName) up to its first await, or to its return when
\* the key is cached
LoadFontCached(c, fontName) ==
    /\ fontCalls[c].pc \in {"idle", "returned"}
    /\ fontCalls' = [fontCalls EXCEPT ![c] =
          IF Has(fontCache, FontCacheKey(fontName))
          THEN [@ EXCEPT !.pc = "returned", !.fontName = fontName, !.candidates = <<>>,
                         !.at = 0, !.returned = MapGet(fontCache, FontCacheKey(fontName))]
          ELSE [@ EXCEPT !.pc = "first", !.fontName = fontName, !.candidates = <<>>,
                         !.at = 0, !.returned = Font(<<>>, <<>>)]]
    /\ UNCHANGED <<selection, processedNodes, globalAnalysisData, run, analysisFrames,
                   docData, clientData, summaryData, trace, requests, probe,
                   fontCache, availableFonts, fontScanPromise, fontScans>>

\* figma.loadFontAsync returns (ok) or throws to the caller that awaits it:
\* the cache is written, or the next font is tried; the first catch calls
\* getAvailableFonts, whose scan finds `found`
LoadFontAsyncReturns(c, ok, found) ==
    /\ fontCalls[c].pc \in {"first", "fallback"}
    /\ LET call == fontCalls[c]
           key == FontCacheKey(call.fontName)
           systemFallbacks ==
               << Font(<<"I","n","t","e","r">>, <<"R","e","g","u","l","a","r">>),
                  Font(<<"R","o","b","o","t","o">>, <<"R","e","g","u","l","a","r">>),
                  Font(<<"A","r","i","a","l">>, <<"R","e","g","u","l","a","r">>),
                  Font(<<"H","e","l","v","e","t","i","c","a">>, <<"R","e","g","u","l","a","r">>) >>
           \* the call ends when a load succeeds or no font is left to try
           returns == ok \/ (call.pc = "fallback" /\ call.at >= Len(call.candidates))
           font == IF ok /\ call.pc = "fallback" THEN call.candidates[call.at]
                   ELSE call.fontName
       IN  IF returns
           THEN /\ fontCache' = MapSet(fontCache, key, font)
                /\ fontCalls' = [fontCalls EXCEPT ![c].pc = "returned", ![c].returned = font]
                /\ UNCHANGED <<availableFonts, fontScanPromise, fontScans>>
           ELSE IF call.pc = "first"
           THEN /\ availableFonts' = getAvailableFonts(found)
                /\ fontScanPromise' = TRUE
                /\ fontScans' = IF availableFonts # Null \/ fontScanPromise
                                THEN fontScans ELSE fontScans + 1
                /\ fontCalls' = [fontCalls EXCEPT
                                   ![c].pc = "fallback",
                                   ![c].candidates = getAvailableFonts(found)
                                                        \o systemFallbacks,
                                   ![c].at = 1]
                /\ UNCHANGED fontCache
           ELSE /\ fontCalls' = [fontCalls EXCEPT ![c].at = @ + 1]
                /\ UNCHANGED <<fontCache, availableFonts, fontScanPromise, fontScans>>
    /\ UNCHANGED <<selection, processedNodes, globalAnalysisData, run, analysisFrames,
                   docData, clientData, summaryData, trace, requests, probe>>

\* two requests that load the fonts of their analysis frames, in a document
\* whose text nodes have no font, one font or two
SpecFonts ==
    Init /\ [][\E c \in {"h1", "h2"} :
                  LET bold == Font(<<"I","n","t","e","r">>, <<"B","o","l","d">>)
                      regular == Font(<<"I","n","t","e","r">>, <<"R","e","g","u","l","a","r">>)
                  IN  \/ \E fontName \in {bold, regular} : LoadFontCached(c, fontName)
                      \/ \E ok \in BOOLEAN, found \in {<<>>, <<regular>>, <<regular, bold>>} :
                            LoadFontAsyncReturns(c, ok, found)]_vars

-----------------------------------------------------------------------------
(* hexToRgb565 and the sanitiser of the export keys called on their own *)

\* hexToRgb565 is handed '#RRGGBB' with one channel any of 0..255 and the
\* others 00 or FF, the same without the '#' and in lower case, and texts
\* that are not six hex digits; the sanitiser is handed every name of up to
\* MaxNameLen characters over a letter of each case, a digit, the three
\* separators and a character it removes
InitConversion ==
    LET upper == <<"0","1","2","3","4","5","6","7","8","9","A","B","C","D","E","F">>
        Pair(n) == <<upper[(n \div 16) + 1], upper[(n % 16) + 1]>>
        sixDigits == { Pair(c) \o Pair(x) \o Pair(y) : c \in 0..255, x \in {0, 255}, y \in {0, 255} }
                        \cup { Pair(x) \o Pair(c) \o Pair(y) : c \in 0..255, x \in {0, 255}, y \in {0, 255} }
                        \cup { Pair(x) \o Pair(y) \o Pair(c) : c \in 0..255, x \in {0, 255}, y \in {0, 255} }
        few == { Pair(255) \o Pair(0) \o Pair(0), Pair(0) \o Pair(255) \o Pair(0),
                 Pair(0) \o Pair(0) \o Pair(255), Pair(171) \o Pair(205) \o Pair(239) }
        colors == { <<"#">> \o d : d \in sixDigits }
                     \cup few
                     \cup { toLowerCase(d) : d \in few }
                     \cup { <<"#">> \o toLowerCase(d) : d \in few }
        malformed == { <<>>, <<"#">>, <<"#","F","F","F">>,
                       <<"n","o","t","-","a","-","c","o","l","o","r">>,
                       <<"#","G","G","0","0","0","0">>,
                       <<"#","F","F","0","0","0","0","0">>,
                       <<"#","#","F","F","0","0","0","0">>,
                       <<" ","#","F","F","0","0","0","0">>,
                       <<"F","F","0","0","0">>,
                       <<"0","x","F","8","0","0">> }
        alphabet == {"A", "b", "1", "_", "-", " ", "#"}
        names == UNION { [1..n -> alphabet] : n \in 0..MaxNameLen }
    IN  /\ LoadedWith(NewMap)
        /\ \/ \E hex \in colors \cup malformed :
                 probe = [of |-> "hexToRgb565", input |-> hex, done |-> FALSE, output |-> <<>>]
           \/ \E name \in names :
                 probe = [of |-> "lvglName", input |-> name, done |-> FALSE, output |-> <<>>]

\* rgb565: hexToRgb565(color.hex), and const lvglName = styleKey.replace(...)
Convert ==
    /\ probe.of \in {"hexToRgb565", "lvglName"}
    /\ ~probe.done
    /\ probe' = [probe EXCEPT !.done = TRUE,
                              !.output = IF probe.of = "hexToRgb565"
                                         THEN hexToRgb565(probe.input)
                                         ELSE lvglNameOf(probe.input)]
    /\ UNCHANGED <<selection, processedNodes, globalAnalysisData, run, analysisFrames,
                   docData, clientData, summaryData, trace, requests, fontVars>>

SpecConversion == InitConversion /\ [][Convert]_vars

Step(h) ==
    \/ FrameThrows(h)
    \/ SkipEmptyFrame(h)
    \/ StartExtraction(h)
    \/ AnalyzeNodeStep(h)
    \/ \E created \in BOOLEAN : FinishFrame(h, created)
    \/ Summarize(h)

\* the UI sends the next message only when the last one has been handled
Next ==
    \E h \in Handlers :
        \/ \E sel \in Selections : AnalyzeFrameMsg(h, sel)
        \/ \E frameId \in FrameIds : ReAnalyzeFrameMsg(h, frameId)
        \/ ReAnalyzeAllMsg(h)
        \/ Step(h)

Spec == Init /\ [][Next]_vars

\* the event loop runs every continuation whose await has returned: a
\* request that can take a step takes one
SpecLive == Spec /\ \A h \in Handlers : WF_vars(Step(h))

\* what the user selects before a message that overlaps an earlier one
OverlapSelections == { <<"F1">>, <<"F3">> }

\* onmessage has no guard against a message that arrives while an earlier
\* call is suspended at an await: the new call starts at once
OverlappingMsg(h) ==
    \/ \E sel \in OverlapSelections : Dispatch(h, "analyze-frame", sel, TRUE)
    \/ \E frameId \in FrameIds :
          /\ Has(getFilteredAnalyzedFramesList, frameId)
          /\ Dispatch(h, "reAnalyzeFrame", <<frameId>>, TRUE)
    \/ /\ Len(getFilteredAnalyzedFramesList.items) > 0
       /\ Dispatch(h, "reAnalyzeAll", HistoryKeys(getFilteredAnalyzedFramesList), TRUE)

\* the plugin with a UI that does not wait for the end of a request
SpecOverlap == Init /\ [][Next \/ \E h \in Handlers : OverlappingMsg(h)]_vars

\* the plugin with the messages of the list of analysed frames
SpecHistory ==
    Init /\ [][Next \/ \E h \in Handlers : ClearFramesListMsg(h) \/ GetFramesListMsg(h)]_vars

-----------------------------------------------------------------------------
(* Properties.  trace.lastPass is the last extraction that ran to its end:
   the nodes findAll returned, the record analyzeFrame built (raw), the
   record that was cached (normalized), and the history of its analyzeNode
   calls.  trace.summaryInput is the cache the last summary was built from. *)

Occurrences(seq, x) == Cardinality({i \in DOMAIN seq : seq[i] = x})

ReferencesOf(record) == record.components \o record.icons

\* the key mainComponent.key || mainComponent.id of a ComponentReference
KeyOfReference(ref) == IF ref.key # <<>> THEN ref.key ELSE ref.id

\* refs holds one entry per resolved key, counting the instances resolved to it
CountsInstances(refs, resolved) ==
    \A K \in Range(resolved) \cup {KeyOfReference(refs[i]) : i \in DOMAIN refs} :
        /\ Cardinality({i \in DOMAIN refs : KeyOfReference(refs[i]) = K}) = 1
        /\ \A i \in DOMAIN refs :
              KeyOfReference(refs[i]) = K =>
                  /\ refs[i].instanceCount = Occurrences(resolved, K)
                  /\ refs[i].instanceCount >= 1

\* C1: within one extraction pass, components and icons together hold exactly
\* one entry for every key an INSTANCE node of the pass resolved to, and its
\* instanceCount is the number of processed INSTANCE nodes that resolved to
\* that key (so at least 1); counts of different keys are never added up.
C1_InstanceCountPerVariantKey ==
    /\ trace.lastPass.valid =>
          CountsInstances(ReferencesOf(trace.lastPass.raw), trace.lastPass.resolved)
    /\ \A h \in Handlers :
          run[h].pc = "nodes" =>
              CountsInstances(MapValues(run[h].ctx.components) \o MapValues(run[h].ctx.icons),
                              run[h].resolved)

\* a pass over a plain component used twice and a variant of the set of the
\* same name used once: two entries, counting 2 and 1
C1_Witness ==
    /\ trace.lastPass.valid
    /\ \E i, j \in DOMAIN ReferencesOf(trace.lastPass.raw) :
          LET plain == ReferencesOf(trace.lastPass.raw)[i]
              variant == ReferencesOf(trace.lastPass.raw)[j]
          IN  /\ ~plain.isVariant /\ variant.isVariant
              /\ plain.masterName = variant.masterName
              /\ plain.instanceCount = 2 /\ variant.instanceCount = 1
              /\ Occurrences(trace.lastPass.resolved, KeyOfReference(plain)) = 2

\* C2: during one extraction the root and every node findAll returned is
\* processed exactly once: a node already in processedNodes contributes
\* nothing more, and processedNodes is emptied when an extraction starts, so
\* it holds the nodes of the running extraction only and a node processed by
\* an earlier extraction is processed again, once.
C2_EachNodeProcessedOnce ==
    /\ trace.lastPass.valid =>
          LET reached == {trace.lastPass.frame} \cup Range(trace.lastPass.nodes) IN
          /\ \A id \in reached : Occurrences(trace.lastPass.visits, id) = 1
          /\ Range(trace.lastPass.visits) \subseteq reached
    /\ \A h \in Handlers :
          run[h].pc = "nodes" =>
              /\ processedNodes = Range(run[h].visits)
              /\ processedNodes =
                    {run[h].frames[run[h].i]}
                       \cup {run[h].allNodes[k] : k \in 1..(run[h].j - 1)}

\* a frame extracted for the second time, whose findAll lists one node twice
C2_Witness ==
    /\ trace.lastPass.valid
    /\ run["h1"].type = "reAnalyzeFrame"
    /\ run["h1"].pc = "ended"
    /\ run["h1"].stored # {}
    /\ \E id \in Range(trace.lastPass.nodes) :
          /\ Occurrences(trace.lastPass.nodes, id) = 2
          /\ Occurrences(trace.lastPass.visits, id) = 1


\* the hex values of the paints analyzeNode is to record: SOLID, coloured,
\* visible, opacity other than 0
PaintHexes(paints) ==
    { rgbToHex(paints[i].color[1], paints[i].color[2], paints[i].color[3]) :
        i \in { k \in DOMAIN paints :
                  /\ paints[k].type = "SOLID" /\ paints[k].hasColor /\ paints[k].visible
                  /\ ~(paints[k].hasOpacity /\ paints[k].opacity = 0) } }

HexesOf(record) == { record.colors[i].hex : i \in DOMAIN record.colors }

\* the name of the style an id resolves to, Null when there is no such style
StyleNameOf(styleId) ==
    IF styleId # <<>> /\ Styles[styleId].outcome = "style" THEN Styles[styleId].name ELSE <<>>

\* the facets of node that need no component: fills, strokes, font, effect style
FacetsRecorded(node, record) ==
    /\ node.hasFills => PaintHexes(node.fills) \subseteq HexesOf(record)
    /\ node.hasStrokes => PaintHexes(node.strokes) \subseteq HexesOf(record)
    /\ node.hasFontName =>
          \E i \in DOMAIN record.fonts :
              /\ record.fonts[i].fontFamily = node.fontName.family
              /\ record.fonts[i].fontStyle = node.fontName.style
    /\ StyleNameOf(node.effectStyleId) # <<>> =>
          StyleNameOf(node.effectStyleId) \in Range(record.effectStyles)

\* C3: when one facet of a node cannot be resolved (an INSTANCE whose main
\* component is missing or does not resolve, a style lookup that throws or
\* returns nothing), the node's other facets are still in the record: its
\* solid fills and strokes, its font and its effect style.
C3_FacetFailureIsLocal ==
    trace.lastPass.valid =>
        \A id \in Range(trace.lastPass.nodes) :
            FacetsRecorded(Nodes[id], trace.lastPass.raw)

\* C4: the root of an extraction is processed by the rules of its
\* descendants: its solid fills and strokes are in the record's colors, the
\* fill or stroke style of such a paint is in colorStyles, and its effect
\* style is in effectStyles.
C4_RootProcessedLikeDescendants ==
    trace.lastPass.valid =>
        LET root == Nodes[trace.lastPass.frame]
            record == trace.lastPass.raw
        IN  /\ FacetsRecorded(root, record)
            /\ (root.hasFills /\ PaintHexes(root.fills) # {}
                  /\ StyleNameOf(root.fillStyleId) # <<>>) =>
                   StyleNameOf(root.fillStyleId) \in Range(record.colorStyles)
            /\ (root.hasStrokes /\ PaintHexes(root.strokes) # {}
                  /\ StyleNameOf(root.strokeStyleId) # <<>>) =>
                   StyleNameOf(root.strokeStyleId) \in Range(record.colorStyles)

\* C5: when the handling of one frame of a request fails, every other
\* non-empty frame of the request has been extracted and its record stored
\* by the time the request ends.
C5_OtherSubtreesSurviveFailure ==
    \A h \in Handlers :
        (run[h].pc = "ended" /\ run[h].failedAt # 0) =>
            \A k \in DOMAIN run[h].frames :
                (k # run[h].failedAt /\ Len(Frames[run[h].frames[k]].descendants) > 0) =>
                    k \in run[h].stored

\* C6: no two extraction passes are in progress at the same time, and no
\* pass ends with a node of its frame left out because another pass put the
\* node into processedNodes or cleared the set.
C6_OnePassAtATime ==
    /\ Cardinality({ h \in Handlers : run[h].pc = "nodes" }) <= 1
    /\ trace.lastPass.valid =>
          {trace.lastPass.frame} \cup Range(trace.lastPass.nodes)
              \subseteq Range(trace.lastPass.visits)


\* the concatenation of a sequence of sequences
RECURSIVE Concat(_)
Concat(seqs) == IF seqs = <<>> THEN <<>> ELSE Head(seqs) \o Concat(Tail(seqs))

\* the lists of the cached records, one after another in the cache's order
CachedComponents(cache) ==
    Concat([i \in DOMAIN cache.items |-> cache.items[i].value.components])
CachedIcons(cache) ==
    Concat([i \in DOMAIN cache.items |-> cache.items[i].value.icons])
CachedColors(cache) ==
    Concat([i \in DOMAIN cache.items |-> cache.items[i].value.colors])

\* masterName, or masterName:variantName for a variant
SummaryKeyOf(c) ==
    IF c.isVariant THEN c.masterName \o <<":">> \o c.variantName ELSE c.masterName

HexOf(c) == c.hex

\* kept is list cut down to the first entry of every key, each entry as it was
KeepsFirstOfEachKey(kept, list, KeyOf(_)) ==
    LET first == { i \in DOMAIN list :
                     \A j \in 1..(i - 1) : KeyOf(list[j]) # KeyOf(list[i]) }
    IN  /\ Len(kept) = Cardinality(first)
        /\ \A i \in first : list[i] \in Range(kept)
        /\ \A k \in DOMAIN kept : \E i \in first : kept[k] = list[i]
        /\ \A k, m \in DOMAIN kept : k # m => KeyOf(kept[k]) # KeyOf(kept[m])

\* C7: the summary's components and icons hold, for every masterName (or
\* masterName:variantName of a variant), the entry of the first cached record
\* that has the key, unchanged: its instanceCount is kept and the count of a
\* later record with the same key is never added to it.
C7_FirstRecordWins ==
    /\ KeepsFirstOfEachKey(summaryData.components,
                           CachedComponents(trace.summaryInput), SummaryKeyOf)
    /\ KeepsFirstOfEachKey(summaryData.icons, CachedIcons(trace.summaryInput), SummaryKeyOf)
    /\ summaryData.totalComponents = Len(summaryData.components)
    /\ summaryData.totalIcons = Len(summaryData.icons)

\* a summary of two records that count the same component differently
C7_Witness ==
    \E i, j \in DOMAIN trace.summaryInput.items :
        /\ i < j
        /\ \E a \in Range(trace.summaryInput.items[i].value.components),
              b \in Range(trace.summaryInput.items[j].value.components) :
              /\ SummaryKeyOf(a) = SummaryKeyOf(b)
              /\ a.instanceCount # b.instanceCount
              /\ a \in Range(summaryData.components)
              /\ b \notin Range(summaryData.components)

\* C8: the summary holds one colour per hex value, the first occurrence in
\* the cache's order with its opacity and styleName, and totalColors is the
\* number of distinct hex values of the cached records.
C8_OneColorPerHex ==
    /\ KeepsFirstOfEachKey(summaryData.colors, CachedColors(trace.summaryInput), HexOf)
    /\ summaryData.totalColors =
          Cardinality({ CachedColors(trace.summaryInput)[i].hex :
                          i \in DOMAIN CachedColors(trace.summaryInput) })

\* a summary of records with one hex at two opacities, in one record and
\* across two records
C8_Witness ==
    /\ \E i \in DOMAIN trace.summaryInput.items :
          \E a, b \in Range(trace.summaryInput.items[i].value.colors) :
              a.hex = b.hex /\ a.opacity # b.opacity
    /\ \E i, j \in DOMAIN trace.summaryInput.items :
          /\ i < j
          /\ \E a \in Range(trace.summaryInput.items[i].value.colors),
                b \in Range(trace.summaryInput.items[j].value.colors) :
                /\ a.hex = b.hex /\ a.opacity # b.opacity
                /\ a \in Range(summaryData.colors)
                /\ b \notin Range(summaryData.colors)
    /\ summaryData.totalColors < Len(CachedColors(trace.summaryInput))

\* the analysis records in sight: cached now, or cached at the last summary
\* (they change when a pass ends, not while one runs)
RecordsInSight ==
    { globalAnalysisData.items[i].value : i \in DOMAIN globalAnalysisData.items }
        \cup { trace.summaryInput.items[i].value : i \in DOMAIN trace.summaryInput.items }

\* the summary of a cache that holds first and then second
SummaryOfTwo(first, second) ==
    collectSummaryData(MapSet(MapSet(NewMap, <<"1">>, first), <<"2">>, second), 2)

KeySetsOf(summary) ==
    [components |-> { SummaryKeyOf(c) : c \in Range(summary.components) },
     icons |-> { SummaryKeyOf(c) : c \in Range(summary.icons) },
     fonts |-> { f.displayString : f \in Range(summary.fonts) },
     colors |-> { c.hex : c \in Range(summary.colors) }]

\* C9: aggregating two records in either order gives the same component,
\* icon, font and colour keys; every entry kept is an entry of one of the
\* two records, so the orders differ only in whose entry stands for a key.
C9_KeySetsOrderInvariant ==
    (\A h \in Handlers : run[h].pc # "nodes") =>
        \A A, B \in RecordsInSight :
            LET ab == SummaryOfTwo(A, B)
                ba == SummaryOfTwo(B, A)
            IN  /\ KeySetsOf(ab) = KeySetsOf(ba)
                /\ Range(ab.components) \cup Range(ba.components)
                      \subseteq Range(A.components) \cup Range(B.components)
                /\ Range(ab.icons) \cup Range(ba.icons)
                      \subseteq Range(A.icons) \cup Range(B.icons)
                /\ Range(ab.fonts) \cup Range(ba.fonts)
                      \subseteq Range(A.fonts) \cup Range(B.fonts)
                /\ Range(ab.colors) \cup Range(ba.colors)
                      \subseteq Range(A.colors) \cup Range(B.colors)

\* two records whose summaries differ with the order, in the entries only
C9_Witness ==
    \E A, B \in RecordsInSight :
        /\ Range(SummaryOfTwo(A, B).components) # Range(SummaryOfTwo(B, A).components)
        /\ Range(SummaryOfTwo(A, B).colors) # Range(SummaryOfTwo(B, A).colors)
        /\ KeySetsOf(SummaryOfTwo(A, B)) = KeySetsOf(SummaryOfTwo(B, A))
        /\ Cardinality(KeySetsOf(SummaryOfTwo(A, B)).components) > 1

\* a ComponentReference whatever its isIcon flag says
Unflagged(list) == [i \in DOMAIN list |-> [list[i] EXCEPT !.isIcon = FALSE]]

SameEntries(s, t) == \A x \in Range(s) \cup Range(t) : Occurrences(s, x) = Occurrences(t, x)

\* C10: normalisation keeps the entries of components and icons together as
\* they are, each as often as before; in every cached record the entries of
\* icons have isIcon true, those of components have isIcon false, and no
\* ComponentReference is in both lists.
C10_ExactlyOneOfComponentsAndIcons ==
    /\ trace.lastPass.valid =>
          SameEntries(Unflagged(ReferencesOf(trace.lastPass.raw)),
                      Unflagged(ReferencesOf(trace.lastPass.normalized)))
    /\ \A i \in DOMAIN globalAnalysisData.items :
          LET record == globalAnalysisData.items[i].value IN
          /\ \A k \in DOMAIN record.icons : record.icons[k].isIcon
          /\ \A k \in DOMAIN record.components : ~record.components[k].isIcon
          /\ Range(Unflagged(record.components)) \cap Range(Unflagged(record.icons)) = {}

\* a cached record that went through normalisation with components and icons
C10_Witness ==
    /\ trace.lastPass.valid
    /\ Len(trace.lastPass.raw.components) > 0
    /\ Len(trace.lastPass.raw.icons) > 1
    /\ \E i \in DOMAIN globalAnalysisData.items :
          globalAnalysisData.items[i].value = trace.lastPass.normalized


\* s holds 'ic' or 'icon', whatever the case, with the start of s or a
\* character of before in front of it and the end of s or a character of
\* after behind it
HoldsIconWord(s, before, after) ==
    \E p \in 1..Len(s), n \in {2, 4} :
        /\ p + n - 1 <= Len(s)
        /\ toLowerCase(SubSeq(s, p, p + n - 1)) = SubSeq(<<"i","c","o","n">>, 1, n)
        /\ p = 1 \/ s[p - 1] \in before
        /\ p + n - 1 = Len(s) \/ s[p + n] \in after

\* a variant property of c whose key or value holds 'icon', whatever the case
HoldsIconProperty(c) ==
    /\ ~c.variantPropertiesThrow
    /\ \E i \in DOMAIN c.variantProperties, k \in {1, 2} :
          LET text == toLowerCase(c.variantProperties[i][k]) IN
          \E p \in 1..(Len(text) - 3) : SubSeq(text, p, p + 3) = <<"i","c","o","n">>

\* the classifier's result for c when the words of a name are bounded by the
\* characters of limits(name)
ClassifiedByWords(c, limits) ==
    IF /\ ~c.readThrows
       /\ \/ HoldsIconWord(c.name, limits[c.name], limits[c.name])
          \/ /\ c.parent.type = "COMPONENT_SET"
             /\ HoldsIconWord(c.parent.name, limits[c.parent.name], limits[c.parent.name])
          \/ HoldsIconProperty(c)
    THEN "icon" ELSE "component"

\* the names a classified component can carry
ClassifiedNames ==
    { c.name : c \in ClassifierInputs } \cup { c.parent.name : c \in ClassifierInputs }

\* C11 (as stated): the classifier returns icon exactly when the component's
\* name or the name of its variant set holds 'ic' or 'icon' between the start
\* or end of the name, an underscore, a hyphen or a space, or a variant
\* property key or value holds 'icon'; an error while the component is read
\* gives non-icon; the size has no part in it.
C11_IconByListedBoundaries ==
    (probe.of = "isComponentAnIcon" /\ probe.done) =>
        probe.output = ClassifiedByWords(probe.input,
                                         [s \in ClassifiedNames |-> {"_", "-", " "}])

\* C11: the classifier returns icon exactly when the component's name or the
\* name of its variant set holds 'ic' or 'icon', in any case, with no letter
\* or digit directly before or after it (so an underscore, a hyphen, a space,
\* '/', '=', ':' and the ends of the name all bound the word), or a variant
\* property key or value holds 'icon' in any case; an error while the
\* component is read gives non-icon, an error while the variant properties
\* are read leaves the names to decide, and the size has no part in it.
C11_IconByWordBoundary ==
    (probe.of = "isComponentAnIcon" /\ probe.done) =>
        probe.output = ClassifiedByWords(probe.input,
                          [s \in ClassifiedNames |->
                              Range(s) \ (Range(UpperCase) \cup Range(LowerCase)
                                             \cup Range(DigitChars))])

\* 'Button/Icon', of icon size, not in a variant set and without variant
\* properties, classified as an icon by the '/' in front of the word
C11_Witness ==
    /\ probe.of = "isComponentAnIcon"
    /\ probe.done
    /\ probe.output = "icon"
    /\ probe.input.name = <<"B","u","t","t","o","n","/","I","c","o","n">>
    /\ probe.input.parent.type = "PAGE"
    /\ probe.input.variantProperties = <<>>
    /\ ~probe.input.readThrows


-----------------------------------------------------------------------------
(* C12 - C14: the export document *)

\* the entries the loop of generateLVGLJson meets: per cached record, per font
FontSources == [r \in DOMAIN globalAnalysisData.items |->
                  [i \in DOMAIN globalAnalysisData.items[r].value.fonts |->
                      FontExport(globalAnalysisData.items[r].value.fonts[i])]]
ColorSources == [r \in DOMAIN globalAnalysisData.items |->
                   [i \in DOMAIN globalAnalysisData.items[r].value.colors |->
                       ColorExport(globalAnalysisData.items[r].value.colors[i])]]

\* obj holds, for every key of the sources, the entry of the first source
\* with that key (cache order, then array order), and nothing else
FirstPerKey(obj, sources) ==
    LET At == UNION { { <<r, i>> : i \in DOMAIN sources[r] } : r \in DOMAIN sources }
        Earlier(a, b) == a[1] < b[1] \/ (a[1] = b[1] /\ a[2] < b[2])
        First(a) == \A b \in At : Earlier(b, a) => sources[b[1]][b[2]].key # sources[a[1]][a[2]].key
    IN  /\ \A a \in At : Has(obj, sources[a[1]][a[2]].key)
        /\ \A e \in Range(obj.items) :
              \E a \in At : /\ First(a)
                            /\ sources[a[1]][a[2]] = e
        /\ \A m, n \in DOMAIN obj.items : obj.items[m].key = obj.items[n].key => m = n

\* a handler that answered an exportJson request with the document
Exported(h) ==
    /\ run[h].pc = "ended"
    /\ run[h].type = "exportJson"
    /\ \E i \in DOMAIN run[h].out : run[h].out[i] = "jsonExport"

\* C12: the exported document holds, for each final key given by the fonts
\* and colours of the cached records, the entry of the first source with
\* that key and no other entry
C12_FirstSourcePerKey ==
    \A h \in Handlers :
        Exported(h) => /\ FirstPerKey(run[h].data.typography, FontSources)
                       /\ FirstPerKey(run[h].data.colors, ColorSources)

\* C13: every typography entry of the exported document has a number as
\* its font_size
C13_NumericFontSize ==
    \A h \in Handlers :
        Exported(h) =>
            \A e \in Range(run[h].data.typography.items) : e.value.font_size.kind = "number"

\* C14: an exportJson request answers with a warning alone when the cache
\* is empty or no cached record has a font or a colour, and with one
\* jsonExport carrying the document and then a success in every other case
C14_WarningOnlyWhenNothingCached ==
    \A h \in Handlers :
        (run[h].pc = "ended" /\ run[h].type = "exportJson") =>
            IF \A r \in DOMAIN globalAnalysisData.items :
                    /\ globalAnalysisData.items[r].value.fonts = <<>>
                    /\ globalAnalysisData.items[r].value.colors = <<>>
            THEN run[h].out = <<"warning">>
            ELSE /\ run[h].out = <<"jsonExport", "success">>
                 /\ run[h].data = generateLVGLJson(globalAnalysisData)

-----------------------------------------------------------------------------
(* C15 - C19: the colours and fonts of one extraction *)

\* the extraction has been run on the probe's list of nodes
Extracted == probe.of = "analyzeFrame" /\ probe.done

\* the visible solid paints of the nodes handed to the extraction, in the
\* order the walk meets them: node by node, fills before strokes
PaintsSeen ==
    LET Of(i, origin, paints, styleId) ==
            { [at |-> <<i, IF origin = "fill" THEN 1 ELSE 2, k>>,
               origin |-> origin,
               hex |-> rgbToHex(paints[k].color[1], paints[k].color[2], paints[k].color[3]),
               given |-> paints[k].hasOpacity,
               opacity |-> IF paints[k].hasOpacity THEN paints[k].opacity ELSE 1000,
               styleName |-> IF Truthy(styleId) /\ PoolStyles[styleId].outcome = "style"
                             THEN PoolStyles[styleId].name ELSE Null] :
              k \in { k \in DOMAIN paints : /\ paints[k].type = "SOLID"
                                            /\ paints[k].hasColor
                                            /\ paints[k].visible } }
        OfNode(i, node) ==
            IF ~node.visible THEN {}
            ELSE (IF node.hasFills THEN Of(i, "fill", node.fills, node.fillStyleId) ELSE {})
                 \cup (IF node.hasStrokes
                       THEN Of(i, "stroke", node.strokes, node.strokeStyleId) ELSE {})
    IN  UNION { OfNode(i, PoolNodes[probe.input.allNodes[i]]) :
                i \in DOMAIN probe.input.allNodes }

\* C15: every colour of the record has an opacity above 0 and at most 1 and
\* is the colour of a paint seen with that opacity; a paint of opacity 0
\* gives no entry, and a paint with no opacity is stored with opacity 1
C15_OpacityAboveZero ==
    Extracted =>
        LET colors == Range(probe.output.record.colors) IN
        /\ \A c \in colors : c.opacity \in 1..1000
        /\ \A c \in colors : \E o \in PaintsSeen : /\ o.opacity # 0
                                                   /\ o.hex = c.hex
                                                   /\ o.opacity = c.opacity
        /\ \A o \in PaintsSeen : ~o.given => \E c \in colors : c.hex = o.hex /\ c.opacity = 1000

\* a fill with no opacity and a stroke of opacity 0 have been extracted
C15_Witness ==
    /\ Extracted
    /\ \E o \in PaintsSeen : o.given /\ o.opacity = 0
    /\ \E o \in PaintsSeen : ~o.given
    /\ \E i \in DOMAIN probe.output.record.colors : probe.output.record.colors[i].opacity = 1000

\* the walk meets o before p
MetBefore(o, p) ==
    \/ o.at[1] < p.at[1]
    \/ o.at[1] = p.at[1] /\ o.at[2] < p.at[2]
    \/ o.at[1] = p.at[1] /\ o.at[2] = p.at[2] /\ o.at[3] < p.at[3]

\* the part of the opacity the key of a colour carries: nothing at opacity
\* 1, the whole percentage below
OpacityClass(opacity) == IF opacity = 1000 THEN -1 ELSE RoundScaled(opacity, 100)

C17_EntryPerOrigin ==
    Extracted =>
        LET colors == probe.output.record.colors IN
        \A o \in PaintsSeen :
            o.opacity # 0 =>
                Cardinality({ i \in DOMAIN colors :
                                /\ colors[i].hex = o.hex
                                /\ OpacityClass(colors[i].opacity) = OpacityClass(o.opacity)
                                /\ colors[i].type = o.origin }) = 1

\* the fonts of the visible nodes handed to the extraction, in the order
\* the walk meets them
FontsSeen ==
    LET OfNode(i, node) ==
            IF ~(node.visible /\ node.hasFontName) THEN {}
            ELSE { [at |-> <<i, 0, 0>>,
                    fontKey |-> FontKeyOf(node.fontName, ResolveFontSize(node, PoolStyles)),
                    styleName |-> IF Truthy(node.textStyleId)
                                     /\ PoolStyles[node.textStyleId].outcome = "style"
                                  THEN PoolStyles[node.textStyleId].name ELSE Null] }
    IN  UNION { OfNode(i, PoolNodes[probe.input.allNodes[i]]) :
                i \in DOMAIN probe.input.allNodes }

\* name is the style name of the first of the occurrences that has one, and
\* null when none has
FirstStyleName(name, occurrences) ==
    LET named == { o \in occurrences : Truthy(o.styleName) } IN
    IF named = {} THEN name = Null
    ELSE \E o \in named : /\ \A p \in named : ~MetBefore(p, o)
                          /\ name = o.styleName

\* C18: the styleName of a font or colour of the record is the first style
\* name met among the nodes of its key: no later node without a style and
\* no later node with another style changes it
C18_FirstStyleNameKept ==
    Extracted =>
        LET colors == probe.output.record.colors
            fonts == probe.output.record.fonts
        IN  /\ \A i \in DOMAIN fonts :
                  FirstStyleName(fonts[i].styleName,
                                 { o \in FontsSeen : o.fontKey = fonts[i].fontKey })
            /\ \A i \in DOMAIN colors :
                  FirstStyleName(colors[i].styleName,
                                 { o \in PaintsSeen :
                                     /\ o.opacity # 0
                                     /\ o.hex = colors[i].hex
                                     /\ OpacityClass(o.opacity) = OpacityClass(colors[i].opacity) })

\* one font met without a style, then with a style, then with another one:
\* the entry has the first style's name
C18_Witness ==
    /\ Extracted
    /\ \E o, p, q \in FontsSeen :
          /\ o.fontKey = p.fontKey /\ p.fontKey = q.fontKey
          /\ MetBefore(o, p) /\ MetBefore(p, q)
          /\ ~Truthy(o.styleName) /\ Truthy(p.styleName) /\ Truthy(q.styleName)
          /\ p.styleName # q.styleName
          /\ \E i \in DOMAIN probe.output.record.fonts :
                /\ probe.output.record.fonts[i].fontKey = o.fontKey
                /\ probe.output.record.fonts[i].styleName = p.styleName

\* C19: the record of an extraction run in batches of 1, 2 or 50 nodes is
\* the record of the same extraction run node by node and of the one run
\* with the whole list as a single batch
C19_RecordSameForEveryBatchSize ==
    Extracted =>
        LET allNodes == probe.input.allNodes
            whole == IF allNodes = <<>> THEN 1 ELSE Len(allNodes)
        IN  /\ probe.output.record
                  = analyzeFrame(PoolFrame, allNodes, whole, PoolNodes, PoolStyles).record
            /\ probe.output.record
                  = analyzeFrame(PoolFrame, allNodes, 1, PoolNodes, PoolStyles).record

\* three nodes with fonts and colours extracted in two batches, of two nodes
\* and of one
C19_Witness ==
    /\ Extracted
    /\ probe.output.batches = <<2, 1>>
    /\ probe.output.progress = <<3>>
    /\ probe.output.record.fonts # <<>>
    /\ Len(probe.output.record.colors) > 1

-----------------------------------------------------------------------------
(* C20: a selection that is not valid *)

\* sel is empty or has an element that is not a frame
Rejected(sel) == sel = <<>> \/ \E i \in DOMAIN sel : TypeOf(sel[i]) # "FRAME"

\* C20: a request for the analysis of an empty selection or of one with an
\* element that is not a frame ends at once with an error message, before
\* any node is visited, and leaves the cache, the frame history, the
\* analysis frames and the summary as they were
C20_InvalidSelectionRejected ==
    [][\A h \in Handlers :
          (/\ requests' # requests
           /\ run'[h] # run[h]
           /\ run'[h].type \in {"analyze-frame", "reAnalyzeFrame", "reAnalyzeAll"}
           /\ Rejected(selection'))
          => /\ run'[h] = [IdleRun EXCEPT !.pc = "ended", !.type = run'[h].type,
                                          !.out = <<"error">>]
             /\ globalAnalysisData' = globalAnalysisData
             /\ docData' = docData
             /\ clientData' = clientData
             /\ analysisFrames' = analysisFrames
             /\ summaryData' = summaryData
             /\ processedNodes' = processedNodes]_vars

\* a frame together with a rectangle has been rejected after an analysis
\* that filled the cache and the history
C20_Witness ==
    /\ selection = <<"F1", "R1">>
    /\ \E h \in Handlers : /\ run[h].pc = "ended"
                           /\ run[h].type = "analyze-frame"
                           /\ run[h].out = <<"error">>
    /\ globalAnalysisData.items # <<>>
    /\ getAnalyzedFramesList.items # <<>>

-----------------------------------------------------------------------------
(* C21: a frame without children *)

\* handler h is in an analysis request all of whose frames are empty
OnlyEmptyFrames(r) ==
    /\ r.type \in {"analyze-frame", "reAnalyzeFrame", "reAnalyzeAll"}
    /\ r.frames # <<>>
    /\ \A k \in DOMAIN r.frames :
          r.frames[k] \in FrameIds /\ Frames[r.frames[k]].descendants = <<>>

\* C21: a request for the analysis of an empty frame ends with an error
\* message alone and no step of it changes the cache, the analysis frames,
\* the frame history or the summary
C21_EmptyFrameReportedAsError ==
    [][\A h \in Handlers :
          (OnlyEmptyFrames(run'[h]) /\ run'[h] # run[h])
          => /\ run'[h].pc = "ended" => run'[h].out = <<"error">>
             /\ globalAnalysisData' = globalAnalysisData
             /\ analysisFrames' = analysisFrames
             /\ docData' = docData
             /\ clientData' = clientData
             /\ summaryData' = summaryData]_vars

-----------------------------------------------------------------------------
(* C22: an extraction runs to its end *)

\* the request of handler h is an analysis that has not ended
Analysing(h) == run[h].pc \in {"frame", "nodes"}

\* the messages of r other than progress and warning
FinalMessages(r) == SelectSeq(r.out, LAMBDA m : m \in {"success", "error"})

\* the request of handler h has ended with one success or error message,
\* posted last
EndedWithOneFinalMessage(h) ==
    /\ run[h].pc = "ended"
    /\ Len(FinalMessages(run[h])) = 1
    /\ run[h].out[Len(run[h].out)] \in {"success", "error"}

\* the last extraction visited the root and then the nodes in the order of
\* the list
VisitedInListOrder ==
    trace.lastPass.valid =>
        LET visits == trace.lastPass.visits
            nodes == trace.lastPass.nodes
            FirstAt(id) == CHOOSE k \in DOMAIN nodes :
                              nodes[k] = id /\ \A m \in 1..(k - 1) : nodes[m] # id
        IN  /\ visits # <<>> /\ visits[1] = trace.lastPass.frame
            /\ \A a, b \in 2..Len(visits) : a < b => FirstAt(visits[a]) < FirstAt(visits[b])

\* C22: an analysis request that has started and has posted no final
\* message yet ends with exactly one success or error message, its
\* extractions having visited the nodes in list order
C22_ExtractionRunsToItsEnd ==
    \A h \in Handlers :
        (Analysing(h) /\ FinalMessages(run[h]) = <<>>)
            ~> (EndedWithOneFinalMessage(h) /\ VisitedInListOrder)

\* the request for F3, whose list names one node twice, has ended with a
\* success after its extraction
C22_Witness ==
    /\ trace.lastPass.valid
    /\ trace.lastPass.frame = "F3"
    /\ Len(trace.lastPass.visits) = 4
    /\ \E h \in Handlers : /\ run[h].pc = "ended"
                           /\ run[h].frames = <<"F3">>
                           /\ run[h].out = <<"success">>

-----------------------------------------------------------------------------
(* C23 *)

\* the call of caller c waits for a host font load
InFlight(c) == fontCalls[c].pc \in {"first", "fallback"}

\* C23: the scan of the available fonts runs at most once, and no two
\* callers wait for a host font load for the same key of the font cache at
\* the same time
C23_OneResolutionInFlight ==
    /\ fontScans <= 1
    /\ \A a, b \in Handlers :
          (a # b /\ InFlight(a) /\ InFlight(b))
              => FontCacheKey(fontCalls[a].fontName) # FontCacheKey(fontCalls[b].fontName)

-----------------------------------------------------------------------------
(* C24, C25: hexToRgb565 *)

UpperHexChars == <<"0","1","2","3","4","5","6","7","8","9","A","B","C","D","E","F">>
LowerHexChars == <<"0","1","2","3","4","5","6","7","8","9","a","b","c","d","e","f">>

IsHexChar(ch) == \E n \in 1..16 : ch \in {UpperHexChars[n], LowerHexChars[n]}

\* the value of a hex digit of either case
HexCharValue(ch) == (CHOOSE n \in 1..16 : ch \in {UpperHexChars[n], LowerHexChars[n]}) - 1

\* text is '#' and six hex digits
HasHashForm(text) ==
    Len(text) = 7 /\ text[1] = "#" /\ \A k \in 2..7 : IsHexChar(text[k])

\* text is six hex digits, with or without a '#' before them
HasHexForm(text) ==
    HasHashForm(text) \/ (Len(text) = 6 /\ \A k \in 1..6 : IsHexChar(text[k]))

\* the channel (1 red, 2 green, 3 blue) of a text that has the hex form
ChannelOf(text, n) ==
    LET digits == IF text[1] = "#" THEN Tail(text) ELSE text
    IN  HexCharValue(digits[2 * n - 1]) * 16 + HexCharValue(digits[2 * n])

Distance(a, b) == IF a < b THEN b - a ELSE a - b

\* the integer of 0..top nearest to c * top / 255, and the integer of 0..255
\* nearest to v * 255 / top (neither quotient lies half way between two
\* integers: twice the numerator is even, the denominator is odd)
Nearest(c, top) ==
    CHOOSE q \in 0..top : \A r \in 0..top : Distance(c * top, q * 255) <= Distance(c * top, r * 255)
Decoded(v, top) ==
    CHOOSE q \in 0..255 : \A r \in 0..255 : Distance(v * 255, q * top) <= Distance(v * 255, r * top)

\* text is '0x' and four upper-case hex digits
IsPackedText(text) ==
    /\ Len(text) = 6 /\ text[1] = "0" /\ text[2] = "x"
    /\ \A k \in 3..6 : \E n \in 1..16 : text[k] = UpperHexChars[n]

\* the 16-bit value a packed text names
PackedValue(text) ==
    HexCharValue(text[3]) * 4096 + HexCharValue(text[4]) * 256
        + HexCharValue(text[5]) * 16 + HexCharValue(text[6])

\* output packs the rounded channels of input
PacksChannelsOf(output, input) ==
    /\ IsPackedText(output)
    /\ PackedValue(output) = Nearest(ChannelOf(input, 1), 31) * 2048
                                + Nearest(ChannelOf(input, 2), 63) * 32
                                + Nearest(ChannelOf(input, 3), 31)

Converted(of) == probe.of = of /\ probe.done

\* C24 as stated: an input of the form #RRGGBB is packed as
\* (R5 << 11) | (G6 << 5) | B5 in four upper-case hex digits after '0x', and
\* every other input gives 0x0000
C24_SentinelUnlessHashForm ==
    Converted("hexToRgb565") =>
        IF HasHashForm(probe.input) THEN PacksChannelsOf(probe.output, probe.input)
        ELSE probe.output = <<"0","x","0","0","0","0">>

\* C24: six hex digits, with or without a '#' before them, are packed as
\* (R5 << 11) | (G6 << 5) | B5 in four upper-case hex digits after '0x'
\* (#FF0000 as 0xF800, #00FF00 as 0x07E0, #0000FF as 0x001F), and every
\* other input gives 0x0000
C24_PacksRoundedChannels ==
    Converted("hexToRgb565") =>
        /\ IF HasHexForm(probe.input) THEN PacksChannelsOf(probe.output, probe.input)
           ELSE probe.output = <<"0","x","0","0","0","0">>
        /\ probe.input = <<"#","F","F","0","0","0","0">>
              => probe.output = <<"0","x","F","8","0","0">>
        /\ probe.input = <<"#","0","0","F","F","0","0">>
              => probe.output = <<"0","x","0","7","E","0">>
        /\ probe.input = <<"#","0","0","0","0","F","F">>
              => probe.output = <<"0","x","0","0","1","F">>

\* green alone has been packed, with a zero before its three digits, and
\* six digits without a '#' have been packed as well
C24_Witness ==
    /\ Converted("hexToRgb565")
    /\ \/ probe.input = <<"#","0","0","F","F","0","0">>
       \/ probe.input = <<"a","b","c","d","e","f">>
    /\ probe.output # <<"0","x","0","0","0","0">>

\* C25: each channel of the packed value, scaled back to 8 bits, is within
\* 4 of the channel of the input
C25_DecodedWithinFour ==
    (Converted("hexToRgb565") /\ HasHexForm(probe.input)) =>
        LET v == PackedValue(probe.output)
        IN  /\ Distance(Decoded(v \div 2048, 31), ChannelOf(probe.input, 1)) <= 4
            /\ Distance(Decoded((v \div 32) % 64, 63), ChannelOf(probe.input, 2)) <= 4
            /\ Distance(Decoded(v % 32, 31), ChannelOf(probe.input, 3)) <= 4

\* a red of 4 has been packed as 0 and a blue of 251 as 31: both are 4 away
\* from what they decode to
C25_Witness ==
    /\ Converted("hexToRgb565")
    /\ probe.input \in { <<"#","0","4","0","0","0","0">>, <<"#","0","0","0","0","F","B">> }
    /\ PackedValue(probe.output) \in {0, 31}

-----------------------------------------------------------------------------
(* C26: the sanitiser of the export keys *)

SmallLetters == <<"a","b","c","d","e","f","g","h","i","j","k","l","m",
                  "n","o","p","q","r","s","t","u","v","w","x","y","z">>
CapitalLetters == <<"A","B","C","D","E","F","G","H","I","J","K","L","M",
                    "N","O","P","Q","R","S","T","U","V","W","X","Y","Z">>
Digits == {"0","1","2","3","4","5","6","7","8","9"}

IsLetterOrDigit(c) ==
    c \in Digits \/ \E n \in 1..26 : c \in {SmallLetters[n], CapitalLetters[n]}

\* the small letter of a capital, every other character as it is
Small(c) ==
    IF \E n \in 1..26 : c = CapitalLetters[n]
    THEN SmallLetters[CHOOSE n \in 1..26 : c = CapitalLetters[n]]
    ELSE c

\* the number of runs of spaces and hyphens in text
SeparatorRuns(text) ==
    Cardinality({ k \in DOMAIN text :
                    /\ text[k] \in {" ", "-"}
                    /\ (k = Len(text) \/ text[k + 1] \notin {" ", "-"}) })

CountOf(c, text) == Cardinality({ k \in DOMAIN text : text[k] = c })

\* C26: the sanitised name holds small letters, digits and underscores only:
\* the letters and digits of the name in their order and in lower case, with
\* an underscore for each underscore of the name and one for each run of
\* spaces and hyphens left when the other characters are removed; sanitising
\* it once more changes nothing
C26_SanitisedNameIsStable ==
    Converted("lvglName") =>
        LET name == probe.input
            out == probe.output
            lettersOf(text) == SelectSeq(text, IsLetterOrDigit)
            kept == SelectSeq(name, LAMBDA c : IsLetterOrDigit(c) \/ c \in {"_", " ", "-"})
        IN  /\ \A k \in DOMAIN out :
                  out[k] = "_" \/ out[k] \in Digits \/ \E n \in 1..26 : out[k] = SmallLetters[n]
            /\ lettersOf(out) = [k \in DOMAIN lettersOf(name) |-> Small(lettersOf(name)[k])]
            /\ CountOf("_", out) = CountOf("_", name) + SeparatorRuns(kept)
            /\ lvglNameOf(out) = out

\* a capital, a run of a space and a hyphen, a removed character and a small
\* letter have been sanitised
C26_Witness ==
    /\ Converted("lvglName")
    /\ probe.input \in { <<"A"," ","-","b">>, <<"A","#","-","b">> }
    /\ probe.output = <<"a","_","b">>

-----------------------------------------------------------------------------
(* C27: the order of the arrays of a record *)

\* font a belongs after font b: by family, then by style, then, for two
\* sizes that are numbers, by size
FontAfter(a, b) ==
    \/ localeCompare(b.fontFamily, a.fontFamily) < 0
    \/ /\ localeCompare(b.fontFamily, a.fontFamily) = 0
       /\ localeCompare(b.fontStyle, a.fontStyle) < 0
    \/ /\ localeCompare(b.fontFamily, a.fontFamily) = 0
       /\ localeCompare(b.fontStyle, a.fontStyle) = 0
       /\ a.fontSize.kind = "number" /\ b.fontSize.kind = "number"
       /\ b.fontSize.n < a.fontSize.n

ColorsInOrder(colors) ==
    \A i, j \in DOMAIN colors : i < j => localeCompare(colors[j].hex, colors[i].hex) >= 0

FontsInOrder(fonts) ==
    \A i, j \in DOMAIN fonts : i < j => ~FontAfter(fonts[i], fonts[j])

TextStylesInOrder(textStyles) ==
    \A i, j \in DOMAIN textStyles :
        i < j => localeCompare(textStyles[j].styleName, textStyles[i].styleName) >= 0

NamesInOrder(names) ==
    \A i, j \in DOMAIN names : i < j => ~CodeUnitLess(names[j], names[i])

\* C27: in the record of an extraction no colour stands before one of a
\* smaller hex, no font before one of a smaller family, of the same family
\* and a smaller style, or of the same family and style and a smaller
\* numeric size, no text style before one of a smaller name, and the names
\* of the colour styles and of the effect styles are in lexical order
C27_RecordArraysOrdered ==
    Extracted =>
        /\ ColorsInOrder(probe.output.record.colors)
        /\ FontsInOrder(probe.output.record.fonts)
        /\ TextStylesInOrder(probe.output.record.textStyles)
        /\ NamesInOrder(probe.output.record.colorStyles)
        /\ NamesInOrder(probe.output.record.effectStyles)

-----------------------------------------------------------------------------
(* C28: the cache of the analysis records *)

\* the cache has the record of the last extraction that ran to its end,
\* under the name of its frame
HoldsLastPass(cache, pass) ==
    pass.valid =>
        \E k \in DOMAIN cache.items :
            cache.items[k] = Entry(Frames[pass.frame].name, pass.normalized)

\* C28: the cache has one record for a name; a step never removes a name
\* nor moves one; a step that changes the cache is the end of an
\* extraction, and it changes nothing but the record under the name of the
\* frame extracted, which is then the record of this extraction, at the
\* place the name had or, for a new name, at the end
C28_OneRecordPerNameMostRecent ==
    [][LET old == globalAnalysisData.items
           new == globalAnalysisData'.items
           pass == trace'.lastPass
       IN  /\ \A i, j \in DOMAIN new : new[i].key = new[j].key => i = j
           /\ Len(old) <= Len(new) /\ Len(new) <= Len(old) + 1
           /\ \A i \in DOMAIN old : new[i].key = old[i].key
           /\ HoldsLastPass(globalAnalysisData', pass)
           /\ new # old =>
                 /\ pass.valid
                 /\ \A i \in DOMAIN old :
                       new[i].key # Frames[pass.frame].name => new[i] = old[i]
                 /\ Len(new) = Len(old) + 1 =>
                       new[Len(new)].key = Frames[pass.frame].name]_vars

\* the record of F1 replaced by that of F3, a frame of the same name, after
\* the record of a frame of another name had been stored: the name is still
\* the first of the cache
C28_Witness ==
    /\ trace.lastPass.valid
    /\ trace.lastPass.frame = "F3"
    /\ trace.lastPass.again
    /\ Has(docData.list, "F1")
    /\ Len(globalAnalysisData.items) = 2
    /\ globalAnalysisData.items[1] = Entry(Frames.F3.name, trace.lastPass.normalized)
    /\ globalAnalysisData.items[1].value.frameInfo.elementCount
          = Len(Frames.F3.descendants)

-----------------------------------------------------------------------------
(* C29: the frame history after clearFramesList *)

\* request h has been handled in this step and was of this type
Handled(h, type) ==
    /\ requests' # requests
    /\ run'[h].type = type
    /\ run'[h].pc = "ended"

\* C29: a clearFramesList request posts an empty list of frames, and the
\* getFramesList request that follows a clearFramesList request posts a
\* list without frames
C29_ClearedListIsEmpty ==
    [][\A h \in Handlers :
          /\ Handled(h, "clearFramesList") =>
                run'[h].out = <<"framesListUpdated">> /\ run'[h].data = <<>>
          /\ (Handled(h, "getFramesList") /\ run[h].type = "clearFramesList") =>
                run'[h].data = <<>>]_vars

-----------------------------------------------------------------------------
(* C30: normalisation of a record of the extractor *)

\* record with its two lists exchanged and every flag cleared: the entries
\* of a record that was classified wrongly
Mislabelled(record) ==
    [record EXCEPT !.components = Unflagged(record.icons),
                   !.icons = Unflagged(record.components)]

\* C30: normalisation leaves the record of an extraction as the extractor
\* built it, every entry in the list the classifier put it in, and
\* normalising a normalised record once more changes nothing, also for a
\* record whose entries were in the wrong lists
C30_NormalizationSettles ==
    trace.lastPass.valid =>
        LET raw == trace.lastPass.raw
            normalized == trace.lastPass.normalized
            settled == normalizeComponentIconClassification(Mislabelled(raw))
        IN  /\ normalized.components = raw.components
            /\ normalized.icons = raw.icons
            /\ normalizeComponentIconClassification(normalized) = normalized
            /\ normalizeComponentIconClassification(settled) = settled

\* the record of an extraction with a component, an icon by its name and an
\* icon by a variant property only, whose name the reconciliation rule does
\* not take for an icon's; normalisation moves entries of the record with
\* its lists exchanged
C30_Witness ==
    /\ trace.lastPass.valid
    /\ Len(trace.lastPass.raw.components) > 0
    /\ \E i, j \in DOMAIN trace.lastPass.raw.icons :
          /\ iconNameRegex(ReclassName(trace.lastPass.raw.icons[i]))
          /\ ~iconNameRegex(ReclassName(trace.lastPass.raw.icons[j]))
    /\ trace.lastPass.normalized = trace.lastPass.raw
    /\ normalizeComponentIconClassification(Mislabelled(trace.lastPass.raw))
          # Mislabelled(trace.lastPass.raw)

=============================================================================
